---- MODULE Spec2Model ----
(***************************************************************************)
(* Model of the crypto-flow gateway: the Market component with its         *)
(* Subscriber registry (binance/src/market.rs, binance/src/subscriber.rs)  *)
(* as driven by the dispatch hub (binance/src/handler.rs).                 *)
(*                                                                         *)
(* Strings on which the code does substring work (stream names) are        *)
(* sequences of one-character strings, so that contains() and replace()    *)
(* are computed as the code computes them.                                 *)
(***************************************************************************)
EXTENDS Integers, Sequences, FiniteSets, TLC

\* ------------------------------------------------------------------ bounds
MaxId == 2        \* upstream request ids 1..MaxId are handed out
MaxCount == 2     \* largest refcount a stream reaches
MaxParams == 2    \* streams named in one subscribe request

\* ------------------------------------------------------------------ inputs
Addrs == {"a1", "a2"}
NoAddr == "none"
NoId == -1
ClientIds == {7, 9}

S_ticker == <<"x", "@", "t", "i", "c", "k", "e", "r">>
S_bbo == <<"x", "@", "b", "b", "o">>
S_depth == <<"x", "@", "d", "e", "p", "t", "h", ":", "1", "0", "0", "m", "s">>
S_kline == <<"x", "@", "k", "l", "i", "n", "e", ":", "1", "m">>

\* stream names a client may put in a subscribe request (client grammar)
ClientStreams == {S_ticker, S_bbo, S_depth, S_kline}

\* parameter lists of a subscribe request, repeats included
ParamLists == UNION {[1..n -> ClientStreams] : n \in 0..MaxParams}

Methods == {"login", "subscribe", "get_products", "get_positions", "order", "cancel", "unknown"}

\* a client text message that parsed as JSON: id (NoId when the member is
\* absent), method, whether params decode to the method's type, and the
\* decoded params that the handlers read
LoginMsg(r, trading) ==
  [id |-> r, method |-> "login", ok |-> TRUE, streams |-> <<>>, trading |-> trading]

SubscribeMsg(r, list) ==
  [id |-> r, method |-> "subscribe", ok |-> TRUE, streams |-> list, trading |-> FALSE]

PlainMsg(r, method) ==
  [id |-> r, method |-> method, ok |-> TRUE, streams |-> <<>>, trading |-> FALSE]

BadParamsMsg(r, method) ==
  [id |-> r, method |-> method, ok |-> FALSE, streams |-> <<>>, trading |-> FALSE]

\* requests of the subscription specification: one id, every parameter list
MarketMessages ==
  {LoginMsg(7, FALSE)} \cup {SubscribeMsg(7, l) : l \in ParamLists}

\* requests of the reply specification: two ids, one-stream lists
ReplyMessages ==
  {LoginMsg(r, FALSE) : r \in ClientIds}
  \cup {SubscribeMsg(r, <<s>>) : r \in ClientIds, s \in {S_ticker, S_bbo}}

\* requests of the dispatch specification: every method, with and without id,
\* with params that decode and params that do not
Messages ==
  {LoginMsg(r, t) : r \in {7, NoId}, t \in BOOLEAN}
  \cup {SubscribeMsg(r, l) : r \in {7, NoId}, l \in {<<>>, <<S_ticker>>, <<S_bbo>>}}
  \cup {PlainMsg(r, m) : r \in {7, NoId}, m \in Methods \ {"login", "subscribe"}}
  \cup {BadParamsMsg(r, m) : r \in {7, NoId}, m \in Methods}

\* error codes of cryptoflow::error_code
NOT_LOGIN == "NOT_LOGIN"
DISCONNECTED == "DISCONNECTED"
TRADE_ERROR == "TRADE_ERROR"
NoCode == "NONE"

VARIABLES
  strategy_client_channels, \* Handler: addresses with a channel pair
  txs,                      \* Market.txs: addresses with a registered sink
  subscribers,              \* Market.subscribers: addr -> [symbols, ids]
  symbols,                  \* Market.symbols: stream name -> refcount
  requests,                 \* Market.requests: upstream id -> addr
  id,                       \* Market.id: next upstream id
  disconnected,             \* Market.disconnected
  trade_disconnected,       \* Trade.disconnected()
  tx_open,                  \* upstream client's outbound sender accepts frames
  upstream,                 \* frames the last step wrote to the exchange
  sink,                     \* addr -> messages the last step put on the sink
  trade_calls,              \* calls the last step made on the Trade interface
  gone,                     \* addresses whose connection has been pruned
  owner,                    \* the requests upstream ids were assigned to
  replied                   \* upstream ids a reply has been processed for

VARIABLES
  state,                    \* SessionManager.state
  ws_client,                \* SessionManager.ws_client is Some
  credentials,              \* SessionManager.credentials is Some
  ws_tx_open,               \* the session client's outbound sender accepts frames
  active_subscriptions,     \* UserDataStreamState.active_subscriptions
  lifetime_subscription_count, \* UserDataStreamState.lifetime_subscription_count
  COUNTER,                  \* the counter of next_request_id
  account_disconnected,     \* Account.disconnected
  account_sent,             \* frames the last step of the account wrote upstream
  process_err,              \* the last Account call returned Err
  call,                     \* the last call on the account and its argument
  in_flight                 \* method -> requests the exchange has not answered yet

VARIABLES
  subscriptions,            \* WebsocketClient.subscriptions: key -> StoredSub
  inserted,                 \* the keys in the order of their first insertion
  client_tx,                \* the channel of WebsocketClient.tx: 0 for None, else the connection's number
  client_sent,              \* frames the last step of the client wrote
  sent_on,                  \* the connection client_sent was written to
  conns,                    \* the connections connect() has made so far
  protocol,                 \* WebsocketClient.protocol: "okx" or "binance"
  client_call,              \* the last call on the client and its arguments
  client_cred,              \* WebsocketClient.credentials: "none", or the kind of its signing key
  wsapi_result              \* what the last wsapi call on the client returned

VARIABLES
  queue,                    \* address -> frames the client sent that the handler has not taken
  sent_n,                   \* address -> frames the client has sent so far
  closed,                   \* clients that dropped their end of the channel
  batch,                    \* the batch the last step's drain pass collected
  visited,                  \* the clients the last step's drain pass visited
  dispatched                \* address -> ids of the frames processed so far, in order

VARIABLES
  keep_running,             \* Handler.keep_running
  pc,                       \* where Handler::process is: "select", "drain" or "exited"
  stop_sent,                \* the oneshot stop signal was sent
  acceptor,                 \* accept_strategy_clients: "running", "stopped" or "failed"
  client_conn,              \* connections the acceptor sent that the handler has not received
  accepted                  \* the addresses the listener has accepted so far

VARIABLES
  hb_running,               \* run_ws_with_heartbeat of the current connection has not returned
  waiting_pong,             \* its local waiting_pong
  tx_in_open,               \* the egress pump of the connection still reads tx_in
  rx_out_open,              \* someone still holds the Receiver connect() returned
  hb_event,                 \* what the last step was: a frame kind, "timer", "poll", ...
  hb_sent,                  \* frames the last step put into tx_in
  hb_delivered,             \* values the last step put into tx_out
  since_ping,               \* watchdog polls since last_ping_time was written, saturating
  since_frame,              \* watchdog polls since the connection was made or gave a frame, saturating
  since_iter,               \* watchdog polls since the heartbeat loop last went round
  ping_answered,            \* the server has answered the ping that is outstanding
  frames_in,                \* the text frames the loop of the connection has read, in order
  frames_out,               \* the values the loop has put into tx_out, in order
  reconnected               \* the last step was a poll that closed and reconnected

VARIABLES
  event,                    \* the order event of the exchange that was projected last
  order                     \* the order it was projected to

VARIABLES
  watchdogs,                \* the reconnect tasks that run, each with the connection whose sender it
                            \* captured and the state of the clone it owns
  open_conns,               \* the upstream connections whose tasks run
  made                      \* the number of upstream connections made so far

VARIABLES
  market_subscriptions,     \* the subscription table of Market.client
  reconnects                \* reconnects the watchdog of Market.client has made

\* the variables of the gateway (Handler, Market, Trade)
mvars == <<strategy_client_channels, txs, subscribers, symbols, requests, id,
           disconnected, trade_disconnected, tx_open, upstream, sink,
           trade_calls, gone, owner, replied>>

\* the variables of the account (Account, SessionManager, UserDataStreamState)
avars == <<state, ws_client, credentials, ws_tx_open, active_subscriptions,
           lifetime_subscription_count, COUNTER, account_disconnected,
           account_sent, process_err, call, in_flight>>

\* the variables of an upstream WebsocketClient
cvars == <<subscriptions, inserted, client_tx, client_sent, sent_on, conns,
          protocol, client_call, client_cred, wsapi_result>>

\* the variables of the upstream client of the Market
wvars == <<market_subscriptions, reconnects>>

\* the variables of the handler's loop
hvars == <<queue, sent_n, closed, batch, visited, dispatched>>

\* the variables of the handler task and of the acceptor
svars == <<keep_running, pc, stop_sent, acceptor, client_conn, accepted>>

\* the variables of the projection of order events
ovars == <<event, order>>

\* the variables of the tasks a client handle and its clones have spawned
rvars == <<watchdogs, open_conns, made>>

\* the variables of one upstream connection: its heartbeat loop and the watchdog
kvars == <<hb_running, waiting_pong, tx_in_open, rx_out_open, hb_event, hb_sent,
          hb_delivered, since_ping, since_frame, since_iter, ping_answered,
          frames_in, frames_out, reconnected>>

\* the variables of the loops around the gateway
xvars == <<hvars, svars, kvars, ovars, rvars>>

vars == <<mvars, avars, cvars, wvars, xvars>>

\* ------------------------------------------------------- string operators
\* pat occurs in s at position i
MatchAt(s, pat, i) ==
  /\ i + Len(pat) - 1 <= Len(s)
  /\ \A k \in 1..Len(pat) : s[i + k - 1] = pat[k]

\* str::contains
Contains(s, pat) == \E i \in 1..Len(s) : MatchAt(s, pat, i)

RECURSIVE ReplaceFrom(_, _, _, _)
ReplaceFrom(s, pat, to, i) ==
  IF i > Len(s) THEN <<>>
  ELSE IF MatchAt(s, pat, i) THEN to \o ReplaceFrom(s, pat, to, i + Len(pat))
  ELSE <<s[i]>> \o ReplaceFrom(s, pat, to, i + 1)

\* str::replace: every non-overlapping match, left to right
Replace(s, pat, to) == ReplaceFrom(s, pat, to, 1)

W_kline == <<"k", "l", "i", "n", "e">>
W_bbo == <<"b", "b", "o">>
W_bookTicker == <<"b", "o", "o", "k", "T", "i", "c", "k", "e", "r">>
W_depth == <<"d", "e", "p", "t", "h">>
W_depth20 == <<"d", "e", "p", "t", "h", "2", "0">>

\* the venue rewrite of a requested stream name in handle_subscribe
Normalize(symbol) ==
  IF Contains(symbol, W_kline) THEN Replace(symbol, <<":">>, <<"_">>)
  ELSE IF Contains(symbol, W_bbo) THEN Replace(symbol, W_bbo, W_bookTicker)
  ELSE IF Contains(symbol, W_depth) THEN Replace(Replace(symbol, W_depth, W_depth20), <<":">>, <<"@">>)
  ELSE symbol

\* the name put in the UNSUBSCRIBE batch for a held symbol
UnsubscribeName(symbol) == Replace(symbol, <<":">>, <<"_">>)

\* ------------------------------------------------------------ small helpers
\* every enumeration of the finite set S as a sequence without repeats
Orderings(S) ==
  {f \in [1..Cardinality(S) -> S] : \A i, j \in 1..Cardinality(S) : f[i] = f[j] => i = j}

Range(f) == {f[i] : i \in DOMAIN f}

\* map insert (HashMap::insert)
MapInsert(m, k, v) == [x \in DOMAIN m \cup {k} |-> IF x = k THEN v ELSE m[x]]

\* map remove (HashMap::remove)
MapRemove(m, k) == [x \in DOMAIN m \ {k} |-> m[x]]

EmptyMap == [x \in {} |-> 0]

\* the rewrite of the client streams, computed once
NormalizeTable == [s \in ClientStreams |-> Normalize(s)]

\* stream names after the venue rewrite
NormalStreams == {NormalizeTable[s] : s \in ClientStreams}

\* the UNSUBSCRIBE names of the rewritten streams, computed once
UnsubscribeTable == [s \in NormalStreams |-> UnsubscribeName(s)]

\* Normalize and UnsubscribeName, looked up where the table has the name
Normalized(symbol) ==
  IF symbol \in ClientStreams THEN NormalizeTable[symbol] ELSE Normalize(symbol)

Unsubscribed(symbol) ==
  IF symbol \in NormalStreams THEN UnsubscribeTable[symbol] ELSE UnsubscribeName(symbol)

\* a message on a client sink: Response{id, result} serialised, so the payload
\* is always carried by the member `result`; kind and code describe the
\* payload, stream names the channel of a stream frame, and u is the upstream
\* id a forwarded reply answers (NoId for a message made by the gateway)
Msg(rid, kind, code, stream, u) ==
  [id |-> rid, member |-> "result", kind |-> kind, code |-> code,
   stream |-> stream, u |-> u]

\* a frame written upstream by wsapi_call: {id, method, params}
Frame(u, method, param) == [id |-> u, method |-> method, params |-> param]

\* an upstream id handed out: the id, the address and the client request id
\* (NoId for an UNSUBSCRIBE) it was handed out for, the method
Owner(u, a, rid, method) == [id |-> u, addr |-> a, rid |-> rid, method |-> method]

\* Subscriber::new
NewSubscriber == [symbols |-> {}, ids |-> EmptyMap]

\* a membership test that says yes to every symbol
IsSubscribed_any(sub, symbol) == TRUE

\* Subscriber::is_subscribed
IsSubscribed(sub, symbol) == symbol \in sub.symbols

\* Subscriber::on_strategy_client_subscribe
OnSubscribe(sub, exchange_req_id, client_req_id, list) ==
  [symbols |-> sub.symbols \cup Range(list),
   ids |-> MapInsert(sub.ids, exchange_req_id, client_req_id)]

\* a forwarded reply that kept the id the exchange sent
RewriteId_keep(exchange_req_id, client_req_id) == exchange_req_id

\* the id a forwarded reply carries: response.id = client_req_id
RewriteId(exchange_req_id, client_req_id) == client_req_id

\* a counter that does not advance
NextId_stuck(i) == i

\* self.id += 1
NextId(i) == i + 1

\* a check that lets every address pass
ValidateLogin_always(subs, a) == TRUE

\* Market::validate_login
ValidateLogin(subs, a) == a \in DOMAIN subs

\* refcount bump of one stream in handle_subscribe
Increment(cnt, s) ==
  IF s \in DOMAIN cnt THEN [cnt EXCEPT ![s] = @ + 1] ELSE MapInsert(cnt, s, 1)

\* ---------------------------------------------------------------- Market
\* The Market operators map a record of the mutable state to the record after
\* the call; err is set when the call returned Err.  upstream, sink and
\* trade_calls start empty in every step.
St ==
  [txs |-> txs, subscribers |-> subscribers, symbols |-> symbols,
   requests |-> requests, id |-> id, owner |-> owner, upstream |-> <<>>,
   sink |-> [a \in Addrs |-> <<>>], trade_calls |-> <<>>, err |-> FALSE]

\* Market::reply
Reply(st, a, rid, kind, code) ==
  IF a \in st.txs
  THEN [st EXCEPT !.sink[a] = Append(@, Msg(rid, kind, code, <<>>, NoId))]
  ELSE st

\* Market::send: the frame is written only when the outbound sender accepts
\* it; then the pending request is recorded and the id advanced
Send(st, a, method, param, rid) ==
  IF tx_open
  THEN [st EXCEPT !.upstream = Append(@, Frame(st.id, method, param)),
                  !.owner = @ \cup {Owner(st.id, a, rid, method)},
                  !.requests = MapInsert(@, st.id, a),
                  !.id = NextId(@)]
  ELSE [st EXCEPT !.err = TRUE]

\* the for loop of handle_subscribe over req.params
RECURSIVE SubscribeLoop(_, _, _, _, _)
SubscribeLoop(sub, params, i, cnt, acc) ==
  IF i > Len(params) THEN [cnt |-> cnt, list |-> acc]
  ELSE IF IsSubscribed(sub, params[i]) THEN SubscribeLoop(sub, params, i + 1, cnt, acc)
  ELSE LET symbol == Normalized(params[i])
       IN SubscribeLoop(sub, params, i + 1, Increment(cnt, symbol), Append(acc, symbol))

\* Market::handle_subscribe
HandleSubscribe(st, a, req) ==
  IF ~ValidateLogin(st.subscribers, a)
  THEN Reply(st, a, req.id, "error", NOT_LOGIN)
  ELSE IF a \notin DOMAIN st.subscribers THEN st
  ELSE LET loop == SubscribeLoop(st.subscribers[a], req.streams, 1, st.symbols, <<>>)
           st1 == [st EXCEPT !.symbols = loop.cnt]
           st2 == Send(st1, a, "SUBSCRIBE", loop.list, req.id)
       IN IF st2.err THEN st2
          ELSE [st2 EXCEPT !.subscribers[a] = OnSubscribe(@, st1.id, req.id, loop.list)]

\* a handle_login that makes a new subscriber at every login
HandleLogin_fresh(st, a, req) ==
  LET st1 == IF a \in st.txs
             THEN [st EXCEPT !.subscribers = MapInsert(@, a, NewSubscriber)]
             ELSE st
  IN Reply(st1, a, req.id, "login", NoCode)

\* Market::handle_login
HandleLogin(st, a, req) ==
  LET st1 == IF a \in st.txs /\ a \notin DOMAIN st.subscribers
             THEN [st EXCEPT !.subscribers = MapInsert(@, a, NewSubscriber)]
             ELSE st
  IN Reply(st1, a, req.id, "login", NoCode)

\* the symbols whose refcount reaches zero when the subscriber of a leaves
ZeroAtClose(st, a) ==
  IF a \in st.txs /\ a \in DOMAIN st.subscribers
  THEN {s \in st.subscribers[a].symbols \cap DOMAIN st.symbols : st.symbols[s] = 1}
  ELSE {}

\* Market::handle_close; ord is the order in which the iteration over the
\* subscriber's HashSet met the symbols that reached zero
HandleClose(st, a, ord) ==
  IF a \notin st.txs THEN st
  ELSE LET held == IF a \in DOMAIN st.subscribers THEN st.subscribers[a].symbols ELSE {}
           zero == ZeroAtClose(st, a)
           st1 == [st EXCEPT !.txs = @ \ {a},
                             !.subscribers = MapRemove(@, a),
                             !.symbols = [s \in DOMAIN st.symbols \ zero |->
                                            IF s \in held THEN st.symbols[s] - 1
                                            ELSE st.symbols[s]]]
       IN IF zero = {} THEN st1
          ELSE Send(st1, a, "UNSUBSCRIBE", [i \in DOMAIN ord |-> Unsubscribed(ord[i])], NoId)

\* a disconnect handler that answers nothing
HandleDisconnect_silent(st, a, m) == st

\* Market::handle_disconnect
HandleDisconnect(st, a, m) ==
  IF m.id # NoId THEN Reply(st, a, m.id, "error", DISCONNECTED) ELSE st

\* Subscriber::on_exchange_response / on_exchange_error
OnExchangeResponse(st, a, u, kind) ==
  LET sub == st.subscribers[a]
  IN IF u \in DOMAIN sub.ids
     THEN [st EXCEPT !.subscribers[a].ids = MapRemove(@, u),
                     !.sink[a] = Append(@, Msg(RewriteId(u, sub.ids[u]), kind,
                                               NoCode, <<>>, u))]
     ELSE st

\* Market::handle_success / Market::handle_error
HandleReply(st, u, kind) ==
  IF u \in DOMAIN st.requests
  THEN LET index == st.requests[u]
           st1 == [st EXCEPT !.requests = MapRemove(@, u)]
       IN IF index \in DOMAIN st1.subscribers
          THEN OnExchangeResponse(st1, index, u, kind)
          ELSE st1
  ELSE st

\* Market::handle_stream: fan-out of a frame of channel c
HandleStream(st, c) ==
  [st EXCEPT !.sink = [a \in Addrs |->
     IF a \in DOMAIN st.subscribers /\ IsSubscribed(st.subscribers[a], c)
     THEN Append(st.sink[a], Msg(NoId, "stream", NoCode, c, NoId))
     ELSE st.sink[a]]]

\* ------------------------------------------------------------------ Trade
\* The venue's Trade implementation is an external collaborator; these
\* operators follow its contract.

\* Trade::reply
TradeReply(st, a, rid, kind, code) ==
  [st EXCEPT !.sink[a] = Append(@, Msg(rid, kind, code, <<>>, NoId))]

\* Trade::handle_disconnect
TradeHandleDisconnect(st, a, m) ==
  IF m.id # NoId THEN TradeReply(st, a, m.id, "error", DISCONNECTED) ELSE st

\* a call of a state-changing Trade operation
TradeCall(st, op, a) == [st EXCEPT !.trade_calls = Append(@, [op |-> op, addr |-> a])]

\* ---------------------------------------------------------------- Handler
\* JsonParser::decode::<Request<T>>: id is a required member
Decodes(m) == m.ok /\ m.id # NoId

\* Handler::check_connection_status; both branches return Ok(())
CheckConnectionStatus(st, a, m) ==
  IF disconnected THEN HandleDisconnect(st, a, m)
  ELSE IF trade_disconnected THEN TradeHandleDisconnect(st, a, m)
  ELSE st

\* Handler::handle_strategy_client_login; terr: Trade rejects the login
HandlerLogin(st, a, m, terr) ==
  IF a \notin strategy_client_channels \/ ~Decodes(m) THEN st
  ELSE LET st1 == IF m.trading
                  THEN LET c == TradeCall(st, "handle_login", a)
                       IN IF terr THEN TradeReply(c, a, m.id, "error", TRADE_ERROR) ELSE c
                  ELSE st
       IN HandleLogin(st1, a, m)

\* Handler::handle_strategy_client_subscribe; terr: Trade rejects the request
HandlerSubscribe(st, a, m, terr) ==
  IF ~Decodes(m) THEN st
  ELSE IF terr THEN Reply(TradeCall(st, "handle_subscribe", a), a, m.id, "error", TRADE_ERROR)
  ELSE HandleSubscribe(TradeCall(st, "handle_subscribe", a), a, m)

\* Handler::handle_strategy_client_get_products
HandlerGetProducts(st, a, m) ==
  IF ~Decodes(m) THEN st ELSE Reply(st, a, m.id, "products", NoCode)

\* Handler::handle_strategy_client_get_positions
HandlerGetPositions(st, a, m) ==
  IF ~Decodes(m) THEN st ELSE Reply(st, a, m.id, "positions", NoCode)

\* Handler::handle_strategy_client_order
HandlerOrder(st, a, m) ==
  IF ~Decodes(m) THEN st ELSE TradeCall(st, "add_order", a)

\* Handler::handle_strategy_client_cancel
HandlerCancel(st, a, m) ==
  IF ~Decodes(m) THEN st ELSE TradeCall(st, "cancel", a)

\* Handler::handle_client_method with execute_client_method
HandleClientMethod(st, a, m, terr) ==
  CASE m.method = "login" -> HandlerLogin(st, a, m, terr)
    [] m.method = "subscribe" -> HandlerSubscribe(st, a, m, terr)
    [] m.method = "get_products" -> HandlerGetProducts(st, a, m)
    [] m.method = "get_positions" -> HandlerGetPositions(st, a, m)
    [] m.method = "order" -> HandlerOrder(st, a, m)
    [] m.method = "cancel" -> HandlerCancel(st, a, m)
    [] OTHER -> st

\* Handler::dispatch_strategy_client_request
DispatchRequest(st, a, m, terr) ==
  HandleClientMethod(CheckConnectionStatus(st, a, m), a, m, terr)

\* Handler::prune: trade.handle_close is reached only when market.handle_close
\* returned Ok
PruneResult(st, a, ord) ==
  LET st1 == HandleClose(st, a, ord)
  IN IF st1.err THEN st1 ELSE TradeCall(st1, "handle_close", a)

\* ---------------------------------------------------------------- Account
\* SessionState
S_Disconnected == [tag |-> "Disconnected"]
S_Connected == [tag |-> "Connected"]

Authenticated(result) ==
  [tag |-> "Authenticated", api_key |-> result.api_key,
   authorized_since |-> result.authorized_since,
   server_time |-> result.server_time,
   user_data_stream |-> result.user_data_stream]

AuthenticationFailed(msg) == [tag |-> "AuthenticationFailed", msg |-> msg]

\* SessionLogonResult values the exchange may send
LogonResults ==
  {[api_key |-> "k1", authorized_since |-> 1, connected_since |-> 1,
    return_rate_limits |-> FALSE, server_time |-> 2, user_data_stream |-> TRUE],
   [api_key |-> "k2", authorized_since |-> 3, connected_since |-> 2,
    return_rate_limits |-> TRUE, server_time |-> 4, user_data_stream |-> FALSE]}

NoLogonResult ==
  [api_key |-> "", authorized_since |-> 0, connected_since |-> 0,
   return_rate_limits |-> FALSE, server_time |-> 0, user_data_stream |-> FALSE]

\* subscription ids the exchange may send
SubscriptionIds == {1, 2}

NoError == "none"

\* a JSON value received from the exchange on the account's channel: whether
\* it has the members id and status of a WS-API response, the request it
\* answers (the exchange echoes the request's id), the status, the shape of
\* the member `result` ("absent" when there is none) with its content, and the
\* member `error`
Value(reply, answers, status, shape, logon, subscription_id, list, error) ==
  [reply |-> reply, answers |-> answers, status |-> status, shape |-> shape,
   logon |-> logon, subscription_id |-> subscription_id, list |-> list,
   error |-> error]

LogonOk(r) == Value(TRUE, "session.logon", 200, "logon", r, 0, <<>>, NoError)

\* an error response: no result, the error member set
ErrorReply(answers, status) ==
  Value(TRUE, answers, status, "absent", NoLogonResult, 0, <<>>, "code=-1, msg=e")

\* status 200 without a result member
EmptyOk(answers) == Value(TRUE, answers, 200, "absent", NoLogonResult, 0, <<>>, NoError)

SubscribeOk(sid) ==
  Value(TRUE, "userDataStream.subscribe", 200, "subscription", NoLogonResult, sid, <<>>, NoError)

UnsubscribeOk ==
  Value(TRUE, "userDataStream.unsubscribe", 200, "object", NoLogonResult, 0, <<>>, NoError)

SubscriptionsOk(list) ==
  Value(TRUE, "session.subscriptions", 200, "list", NoLogonResult, 0, list, NoError)

\* a value that is no WS-API response
Unrecognised == Value(FALSE, "none", 0, "absent", NoLogonResult, 0, <<>>, NoError)

AccountValues ==
  {LogonOk(r) : r \in LogonResults}
  \cup {ErrorReply(q, 400) : q \in {"session.logon", "userDataStream.subscribe",
                                     "userDataStream.unsubscribe",
                                     "session.subscriptions"}}
  \cup {EmptyOk("session.logon")}
  \cup {SubscribeOk(sid) : sid \in SubscriptionIds}
  \cup {UnsubscribeOk, Unrecognised}
  \cup {SubscriptionsOk(l) : l \in {<<>>, <<1, 2>>}}

\* serde_json::from_value::<WsApiResponse<T>>: id and status are required, a
\* missing result is None for every T, a present result must have T's shape
ParsesAs(v, shape) == v.reply /\ v.shape \in {"absent", shape}

\* WsApiResponse<serde_json::Value>: every result has the shape
ParsesAsValue(v) == v.reply

\* the limits of UserDataStreamState::default (1000 and 65535 in the code),
\* scaled down so that both are reached
max_concurrent_subscriptions == 2
max_lifetime_subscriptions == 3

\* the bound on the request counter
MaxCounter == 6

\* the mutable state of the account; sent and err start empty in every step
Acc ==
  [state |-> state, active_subscriptions |-> active_subscriptions,
   lifetime_subscription_count |-> lifetime_subscription_count,
   COUNTER |-> COUNTER, sent |-> <<>>, err |-> FALSE]

\* SessionManager::is_authenticated
IsAuthenticated(s) == s.tag = "Authenticated"

\* SessionManager::is_connected
IsConnected(s) == s.tag # "Disconnected"

CanCreateSubscription_always(acc) == TRUE

\* UserDataStreamState::can_create_subscription
CanCreateSubscription(acc) ==
  /\ Len(acc.active_subscriptions) < max_concurrent_subscriptions
  /\ acc.lifetime_subscription_count < max_lifetime_subscriptions

\* UserDataStreamState::add_subscription (the Err result changes nothing)
AddSubscription(acc, subscription_id) ==
  IF ~CanCreateSubscription(acc) THEN acc
  ELSE [acc EXCEPT !.active_subscriptions = Append(@, subscription_id),
                   !.lifetime_subscription_count = @ + 1]

\* the position of the first occurrence of x in the list, 0 when there is none
Position(list, x) ==
  IF \E i \in DOMAIN list : list[i] = x
  THEN CHOOSE i \in DOMAIN list : list[i] = x /\ \A j \in 1..(i - 1) : list[j] # x
  ELSE 0

RemoveSubscription_keep(acc, subscription_id) == acc

\* UserDataStreamState::remove_subscription: the first occurrence is removed
RemoveSubscription(acc, subscription_id) ==
  LET pos == Position(acc.active_subscriptions, subscription_id)
  IN IF pos = 0 THEN acc
     ELSE [acc EXCEPT !.active_subscriptions =
             SubSeq(@, 1, pos - 1) \o SubSeq(@, pos + 1, Len(@))]

\* UserDataStreamState::clear_all_subscriptions
ClearAllSubscriptions(acc) == [acc EXCEPT !.active_subscriptions = <<>>]

\* the params {} and {subscriptionId: id}
NoParams == <<>>

SubscriptionIdParams(subscription_id) == [subscriptionId |-> subscription_id]

\* a frame written by wsapi_call on the session client
AccountFrame(i, method, params) == [id |-> i, method |-> method, params |-> params]

\* next_request_id() followed by ws_client.wsapi_call(method, params, id)?
AccountCall(acc, method, params) ==
  LET acc1 == [acc EXCEPT !.COUNTER = @ + 1]
  IN IF ws_tx_open
     THEN [acc1 EXCEPT !.sent = Append(@, AccountFrame(acc.COUNTER, method, params))]
     ELSE [acc1 EXCEPT !.err = TRUE]

SubscribeUserData_unchecked(acc) == AccountCall(acc, "userDataStream.subscribe", NoParams)

\* Account::subscribe_user_data
SubscribeUserData(acc) ==
  IF ~IsAuthenticated(acc.state) THEN [acc EXCEPT !.err = TRUE]
  ELSE IF ~CanCreateSubscription(acc) THEN [acc EXCEPT !.err = TRUE]
  ELSE IF ~ws_client THEN [acc EXCEPT !.err = TRUE]
  ELSE AccountCall(acc, "userDataStream.subscribe", NoParams)

\* Account::unsubscribe_user_data; subscription_id is 0 for None
UnsubscribeUserData(acc, subscription_id) ==
  IF ~IsAuthenticated(acc.state) THEN [acc EXCEPT !.err = TRUE]
  ELSE IF ~ws_client THEN [acc EXCEPT !.err = TRUE]
  ELSE LET acc1 == AccountCall(acc, "userDataStream.unsubscribe",
                               IF subscription_id # 0
                               THEN SubscriptionIdParams(subscription_id)
                               ELSE NoParams)
       IN IF acc1.err THEN acc1
          ELSE IF subscription_id # 0 THEN RemoveSubscription(acc1, subscription_id)
          ELSE ClearAllSubscriptions(acc1)

\* Account::get_subscriptions
GetSubscriptions(acc) ==
  IF ~ws_client THEN [acc EXCEPT !.err = TRUE]
  ELSE AccountCall(acc, "session.subscriptions", NoParams)

HandleLoginResult_keep(acc, result) == acc

\* SessionManager::handle_login_result
HandleLoginResult(acc, result) == [acc EXCEPT !.state = Authenticated(result)]

\* SessionManager::handle_login_response
HandleLoginResponse(acc, response) ==
  IF response.status = 200
  THEN IF response.shape = "logon" THEN HandleLoginResult(acc, response.logon) ELSE acc
  ELSE [acc EXCEPT !.state = AuthenticationFailed(
          IF response.error = NoError THEN "unknown" ELSE response.error)]

\* Account::handle_user_data_subscribe_response
HandleUserDataSubscribeResponse(acc, resp) ==
  IF resp.status = 200 /\ resp.shape = "subscription"
  THEN AddSubscription(acc, resp.subscription_id)
  ELSE acc

\* the additions of the list of a session.subscriptions response, in order
RECURSIVE AddAll(_, _, _)
AddAll(acc, list, i) ==
  IF i > Len(list) THEN acc ELSE AddAll(AddSubscription(acc, list[i]), list, i + 1)

\* Account::handle_session_subscriptions_response
HandleSessionSubscriptionsResponse(acc, resp) ==
  IF resp.status = 200 /\ resp.shape = "list"
  THEN AddAll(ClearAllSubscriptions(acc), resp.list, 1)
  ELSE acc

\* Account::process for a value received from the channel: the first type the
\* value parses as decides the branch
ProcessValue(acc, inner) ==
  IF ParsesAs(inner, "logon")
  THEN SubscribeUserData(HandleLoginResponse(acc, inner))
  ELSE IF ParsesAs(inner, "subscription")
  THEN HandleUserDataSubscribeResponse(acc, inner)
  ELSE IF ParsesAsValue(inner) THEN acc
  ELSE IF ParsesAs(inner, "list") THEN HandleSessionSubscriptionsResponse(acc, inner)
  ELSE acc

\* a call on the account: its name, the value it received and the
\* subscription id it was given (0 for None)
Call(op, value, subscription_id) ==
  [op |-> op, value |-> value, subscription_id |-> subscription_id]

\* the id "session_logon_1" of the logon request, which no call of
\* next_request_id gives (the counter starts at 1)
SESSION_LOGON_ID == 0

\* the session.logon request BinanceWsApiProtocol::build_login makes, which
\* connect() of a private client writes first
LogonFrame ==
  AccountFrame(SESSION_LOGON_ID, "session.logon",
               [apiKey |-> "k", signature |-> "s", timestamp |-> 0])

\* the methods of the requests the account's session client sends
AccountMethods ==
  {"session.logon", "userDataStream.subscribe", "userDataStream.unsubscribe",
   "session.subscriptions"}

\* the requests in flight after the frames of sent were written
InFlightAfter(flight, sent) ==
  [m \in AccountMethods |-> flight[m] + Cardinality({i \in DOMAIN sent : sent[i].method = m})]

\* Account::new: SessionManager::new, then login(credentials)
InitAccount ==
  /\ state = S_Disconnected
  /\ ws_client = TRUE
  /\ credentials = TRUE
  /\ ws_tx_open = TRUE
  /\ active_subscriptions = <<>>
  /\ lifetime_subscription_count = 0
  /\ COUNTER = 1
  /\ account_disconnected = FALSE
  /\ account_sent = <<LogonFrame>>
  /\ process_err = FALSE
  /\ call = Call("new", Unrecognised, 0)
  /\ in_flight = InFlightAfter([m \in AccountMethods |-> 0], <<LogonFrame>>)

\* WebsocketClient::new_public
InitClient(p) ==
  /\ protocol = p
  /\ client_call = [op |-> "new"]
  /\ client_cred = "none"
  /\ wsapi_result = "none"
  /\ subscriptions = EmptyMap
  /\ inserted = <<>>
  /\ client_tx = 0
  /\ client_sent = <<>>
  /\ sent_on = 0
  /\ conns = 0

\* the client of Market::new: new_public, then connect
\* Application::keep_running has started the handler task, which is in its
\* first select, and the acceptor; no client has connected or sent anything
InitHandler ==
  /\ queue = [a \in Addrs |-> <<>>]
  /\ sent_n = [a \in Addrs |-> 0]
  /\ closed = {}
  /\ batch = <<>>
  /\ visited = {}
  /\ dispatched = [a \in Addrs |-> <<>>]
  /\ keep_running = TRUE
  /\ pc = "select"
  /\ stop_sent = FALSE
  /\ acceptor = "running"
  /\ client_conn = <<>>
  /\ accepted = {}

\* WebsocketClient::new_public wrote last_ping_time and connect() has just
\* made the first connection and handed its receiver to the caller
InitConnection ==
  /\ hb_running = TRUE
  /\ waiting_pong = FALSE
  /\ tx_in_open = TRUE
  /\ rx_out_open = TRUE
  /\ hb_event = "connect"
  /\ hb_sent = <<>>
  /\ hb_delivered = <<>>
  /\ since_ping = 0
  /\ since_frame = 0
  /\ since_iter = 0
  /\ ping_answered = FALSE
  /\ frames_in = <<>>
  /\ frames_out = <<>>
  /\ reconnected = FALSE
  /\ event = [type |-> "none", c |-> <<>>, C |-> <<>>, X |-> "NEW"]
  /\ order = [internal_id |-> <<0, 0>>, state |-> "NEW"]
  /\ watchdogs = <<[tx |-> 1, has_task |-> FALSE]>>
  /\ open_conns = {1}
  /\ made = 1

InitUpstream ==
  /\ market_subscriptions = EmptyMap
  /\ reconnects = 0

\* ---------------------------------------------------------------- actions
\* the state record fits the bounds of the model
Fits(st) ==
  /\ st.id <= MaxId + 1
  /\ \A s \in DOMAIN st.symbols : st.symbols[s] <= MaxCount

\* the variables a Market/Handler call may change take the values of st
Store(st) ==
  /\ txs' = st.txs
  /\ subscribers' = st.subscribers
  /\ symbols' = st.symbols
  /\ requests' = st.requests
  /\ id' = st.id
  /\ owner' = st.owner
  /\ upstream' = st.upstream
  /\ sink' = st.sink
  /\ trade_calls' = st.trade_calls

\* a step that calls neither Market nor Trade writes nothing
Quiet ==
  /\ upstream' = <<>>
  /\ sink' = [a \in Addrs |-> <<>>]
  /\ trade_calls' = <<>>

\* Market::new: the connection is up and SET_PROPERTY went out under id 0
InitProtocol(p) ==
  /\ strategy_client_channels = {}
  /\ txs = {}
  /\ subscribers = EmptyMap
  /\ symbols = EmptyMap
  /\ requests = EmptyMap
  /\ id = 1
  /\ disconnected = FALSE
  /\ trade_disconnected = FALSE
  /\ tx_open = TRUE
  /\ upstream = <<Frame(0, "SET_PROPERTY", <<>>)>>
  /\ sink = [a \in Addrs |-> <<>>]
  /\ trade_calls = <<>>
  /\ gone = {}
  /\ owner = {Owner(0, NoAddr, NoId, "SET_PROPERTY")}
  /\ replied = {}
  /\ InitAccount
  /\ InitClient(p)
  /\ InitUpstream
  /\ InitHandler
  /\ InitConnection

\* the gateway is built over the Binance protocol
Init == InitProtocol("binance")

\* Handler::on_strategy_client_connect for a connection accepted from a; a peer
\* address names one connection (every accepted socket has its own port)
OnConnect(a) ==
  /\ a \notin strategy_client_channels
  /\ a \notin gone
  /\ txs' = txs \cup {a}
  /\ strategy_client_channels' = strategy_client_channels \cup {a}
  /\ Quiet
  /\ UNCHANGED <<subscribers, symbols, requests, id, disconnected,
                 trade_disconnected, tx_open, gone, owner, replied>>
  /\ UNCHANGED <<avars, cvars, wvars, xvars>>

\* the drain loop dispatches the text message m of client a
Dispatch(a, m, terr) ==
  /\ a \in strategy_client_channels
  /\ LET st == DispatchRequest(St, a, m, terr) IN Fits(st) /\ Store(st)
  /\ UNCHANGED <<strategy_client_channels, disconnected, trade_disconnected,
                 tx_open, gone, replied>>
  /\ UNCHANGED <<avars, cvars, wvars, xvars>>

\* the drain loop meets the Close frame or the closed channel of client a
Prune(a) ==
  /\ a \in strategy_client_channels
  /\ \E ord \in Orderings(ZeroAtClose(St, a)) :
       LET st == PruneResult(St, a, ord) IN Fits(st) /\ Store(st)
  /\ strategy_client_channels' = strategy_client_channels \ {a}
  /\ gone' = gone \cup {a}
  /\ UNCHANGED <<disconnected, trade_disconnected, tx_open, replied>>
  /\ UNCHANGED <<avars, cvars, wvars, xvars>>

\* Market::process receives a Success or Error event carrying the id u
ProcessReply(u, kind) ==
  /\ ~disconnected
  /\ \E o \in owner : o.id = u
  /\ LET st == HandleReply(St, u, kind) IN Store(st)
  /\ replied' = replied \cup {u}
  /\ UNCHANGED <<strategy_client_channels, disconnected, trade_disconnected,
                 tx_open, gone>>
  /\ UNCHANGED <<avars, cvars, wvars, xvars>>

\* Market::process receives a stream frame of channel c
ProcessStream(c) ==
  /\ ~disconnected
  /\ LET st == HandleStream(St, c) IN Store(st)
  /\ UNCHANGED <<strategy_client_channels, disconnected, trade_disconnected,
                 tx_open, gone, replied>>
  /\ UNCHANGED <<avars, cvars, wvars, xvars>>

\* Market::process finds the upstream channel closed
ProcessClosed ==
  /\ ~disconnected
  /\ disconnected' = TRUE
  /\ Quiet
  /\ UNCHANGED <<strategy_client_channels, txs, subscribers, symbols, requests,
                 id, trade_disconnected, tx_open, gone, owner, replied>>
  /\ UNCHANGED <<avars, cvars, wvars, xvars>>

\* the egress pump of the upstream connection ends: sends fail from now on
EgressDown ==
  /\ tx_open
  /\ tx_open' = FALSE
  /\ Quiet
  /\ UNCHANGED <<strategy_client_channels, txs, subscribers, symbols, requests,
                 id, disconnected, trade_disconnected, gone, owner, replied>>
  /\ UNCHANGED <<avars, cvars, wvars, xvars>>

\* Account::process finds the account's channel closed
TradeDown ==
  /\ ~trade_disconnected
  /\ trade_disconnected' = TRUE
  /\ Quiet
  /\ UNCHANGED <<strategy_client_channels, txs, subscribers, symbols, requests,
                 id, disconnected, tx_open, gone, owner, replied>>
  /\ UNCHANGED <<avars, cvars, wvars, xvars>>

\* Trade can reject only a trading login and a subscribe
TradeMayReject(m) ==
  IF Decodes(m) /\ (m.method = "subscribe" \/ (m.method = "login" /\ m.trading))
  THEN BOOLEAN ELSE {FALSE}

\* the dispatch hub with the Market and the Trade behind it
Next ==
  \/ \E a \in Addrs : OnConnect(a)
  \/ \E a \in Addrs, m \in Messages : \E terr \in TradeMayReject(m) : Dispatch(a, m, terr)
  \/ \E a \in Addrs : Prune(a)
  \/ \E u \in 0..MaxId, kind \in {"success", "error"} : ProcessReply(u, kind)
  \/ \E c \in NormalStreams : ProcessStream(c)
  \/ ProcessClosed
  \/ EgressDown
  \/ TradeDown

Spec == Init /\ [][Next]_vars

\* login, subscribe and close calls of any clients, the upstream send failing
\* or not, with every stream of the client grammar
NextMarket ==
  \/ \E a \in Addrs : OnConnect(a)
  \/ \E a \in Addrs, m \in MarketMessages : Dispatch(a, m, FALSE)
  \/ \E a \in Addrs : Prune(a)
  \/ EgressDown

SpecMarket == Init /\ [][NextMarket]_vars

\* subscribe requests of several clients and the exchange's replies to them,
\* in any order and any number
NextReply ==
  \/ \E a \in Addrs : OnConnect(a)
  \/ \E a \in Addrs, m \in ReplyMessages : Dispatch(a, m, FALSE)
  \/ \E a \in Addrs : Prune(a)
  \/ \E u \in 0..MaxId, kind \in {"success", "error"} : ProcessReply(u, kind)

SpecReply == Init /\ [][NextReply]_vars

\* requests of every method while Market and Trade go down, without the
\* exchange's replies
NextDispatch ==
  \/ \E a \in Addrs : OnConnect(a)
  \/ \E a \in Addrs, m \in Messages : \E terr \in TradeMayReject(m) : Dispatch(a, m, terr)
  \/ \E a \in Addrs : Prune(a)
  \/ ProcessClosed
  \/ EgressDown
  \/ TradeDown

SpecDispatch == Init /\ [][NextDispatch]_vars

\* ------------------------------------------------------------ properties
\* the clients that hold the stream s
Holders(s) == {a \in DOMAIN subscribers : s \in subscribers[a].symbols}

\* the Market refcount of s, 0 when s is not in the map
Refcount(s) == IF s \in DOMAIN symbols THEN symbols[s] ELSE 0

\* every stream name that occurs in the Market state
KnownStreams ==
  NormalStreams \cup DOMAIN symbols
  \cup UNION {subscribers[a].symbols : a \in DOMAIN subscribers}

\* the streams named by the frames of the given method that the step wrote
Named(frames, method) ==
  UNION {Range(frames[i].params) : i \in {j \in DOMAIN frames : frames[j].method = method}}

\* C1: for every stream s the refcount of s equals the number of subscribers
\* whose symbol set contains s, and s is in the refcount map exactly when that
\* number is not 0
C1_RefcountMatchesHolders ==
  \A s \in KnownStreams :
    /\ Refcount(s) = Cardinality(Holders(s))
    /\ s \in DOMAIN symbols <=> Holders(s) # {}

\* C5: when the connection of client a is closed (and the upstream accepts
\* frames), handle_close writes an UNSUBSCRIBE naming s if and only if a held s
\* and no other client holds s
C5_UnsubscribeIffLastHolder ==
  [][\A a \in Addrs :
       (tx_open /\ a \in txs /\ a \notin txs')
       => \A s \in KnownStreams :
            s \in Named(upstream', "UNSUBSCRIBE") <=> Holders(s) = {a}]_vars

\* C6: a SUBSCRIBE frame written for a client names no stream that another
\* client already holds
C6_OneUpstreamSubscribe ==
  [][\A i \in DOMAIN upstream' :
       upstream'[i].method = "SUBSCRIBE"
       => \A s \in Range(upstream'[i].params) :
            \A o \in owner' :
              o.id = upstream'[i].id => Holders(s) \subseteq {o.addr}]_vars

\* C7: when a logged-in client that holds the stream it asked for as s sends
\* subscribe for s again, no upstream frame is written and no refcount changes
C7_SecondSubscribeIsNoOp ==
  \A a \in DOMAIN subscribers, s \in ClientStreams :
    Normalized(s) \in subscribers[a].symbols
    => LET st == HandleSubscribe(St, a, SubscribeMsg(7, <<s>>))
       IN st.upstream = <<>> /\ st.symbols = symbols

\* the subscribe requests that Market sent upstream, with the id they went
\* out under
Subscribes == {o \in owner : o.method = "SUBSCRIBE"}

\* the messages a step put on the sink of a that forward the reply to u
Forwarded(snk, a, u) == {i \in DOMAIN snk[a] : snk[a][i].u = u}

\* what the sinks hold after the reply to the subscribe request o was
\* processed when it is the first reply carrying o.id: one message on the
\* sink of the originating client, with the client's id
FirstReplyForwarded(st, o, kind) ==
  /\ st.sink[o.addr] = <<Msg(o.rid, kind, NoCode, <<>>, o.id)>>
  /\ \A b \in Addrs \ {o.addr} : st.sink[b] = <<>>

\* what the sinks hold when a reply is dropped
ReplyDropped(st) == \A b \in Addrs : st.sink[b] = <<>>

\* C2 (as stated): for every subscribe request sent upstream under u with
\* client id r, the first reply carrying u puts exactly one message with id r
\* on the sink of the originating client and every later reply carrying u is
\* dropped
C2_ExactlyOneReply ==
  \A o \in Subscribes, kind \in {"success", "error"} :
    LET st == HandleReply(St, o.id, kind)
    IN IF o.id \in replied THEN ReplyDropped(st) ELSE FirstReplyForwarded(st, o, kind)

\* C2 (amended): the same, for a request whose client is still connected when
\* the first reply is processed; the first reply to a request of a client
\* whose connection was closed is dropped like a later one
C2_ExactlyOneReplyWhileConnected ==
  \A o \in Subscribes, kind \in {"success", "error"} :
    LET st == HandleReply(St, o.id, kind)
    IN IF o.id \in replied \/ o.addr \in gone
       THEN ReplyDropped(st)
       ELSE FirstReplyForwarded(st, o, kind)

\* a first reply was forwarded with the client's id, the upstream id being
\* a different number
C2_Witness ==
  \E o \in Subscribes :
    /\ o.id \in replied
    /\ o.id # o.rid
    /\ sink[o.addr] = <<Msg(o.rid, "success", NoCode, <<>>, o.id)>>

\* C3: whatever the interleaving of requests and replies, a message that
\* forwards the reply carrying u lies only on the sink of the client whose
\* request was assigned u
C3_ReplyOnlyToOwner ==
  \A a \in Addrs : \A i \in DOMAIN sink[a] :
    sink[a][i].u # NoId => \A o \in owner : o.id = sink[a][i].u => o.addr = a

\* two clients used the same client id, the replies came in the other order
\* than the requests, and the later request's reply is on its client's sink
C3_Witness ==
  \E o1 \in Subscribes, o2 \in Subscribes :
    /\ o1.addr # o2.addr
    /\ o1.rid = o2.rid
    /\ o1.id < o2.id
    /\ o1.id \notin replied
    /\ Forwarded(sink, o2.addr, o2.id) # {}

\* the sink of a holds a message with the id rid
Answered(snk, a, rid) == \E i \in DOMAIN snk[a] : snk[a][i].id = rid

\* the call left a pending upstream request of a whose reply will be
\* forwarded under the id rid
Pending(st, a, rid) ==
  \E u \in DOMAIN st.requests \ DOMAIN requests :
    /\ st.requests[u] = a
    /\ a \in DOMAIN st.subscribers
    /\ u \in DOMAIN st.subscribers[a].ids
    /\ st.subscribers[a].ids[u] = rid

\* the Market and Trade state of st is the state before the call
SameState(st) ==
  /\ st.txs = txs
  /\ st.subscribers = subscribers
  /\ st.symbols = symbols
  /\ st.requests = requests
  /\ st.id = id

\* C4: the dispatch of a message with an id, from a connected client, whatever
\* its method and whether its params decode or not, puts a message with that
\* id on the client's sink or leaves a pending upstream request whose reply
\* will be forwarded under that id (the dispatch itself never closes the
\* connection); otherwise nothing is left that could answer the request
C4_RequestWithIdIsNotDropped ==
  \A a \in strategy_client_channels, m \in Messages :
    m.id # NoId
    => \A terr \in TradeMayReject(m) :
         LET st == DispatchRequest(St, a, m, terr)
         IN Answered(st.sink, a, m.id) \/ Pending(st, a, m.id)

\* the messages of st on the sink of a that carry the id rid and the code
NotLoginReplies(st, a, rid, member) ==
  {i \in DOMAIN st.sink[a] :
     /\ st.sink[a][i].id = rid
     /\ st.sink[a][i].code = NOT_LOGIN
     /\ st.sink[a][i].member = member}

\* the client a logs in and sends the subscribe request req again
LoginThenSubscribe(st, a, req) ==
  HandleSubscribe(HandleLogin(st, a, LoginMsg(req.id, FALSE)), a, req)

\* what C8 says of a subscribe request of a client that has not logged in,
\* the code being carried by the given member of the reply
SubscribeBeforeLogin(member) ==
  \A a \in txs \ DOMAIN subscribers :
    \A r \in ClientIds, l \in {<<S_ticker>>, <<S_bbo>>, <<S_kline, S_depth>>} :
      LET req == SubscribeMsg(r, l)
          st == HandleSubscribe(St, a, req)
          again == LoginThenSubscribe(st, a, req)
      IN /\ NotLoginReplies(st, a, r, member) # {}
         /\ st.upstream = <<>>
         /\ SameState(st)
         /\ a \in DOMAIN again.subscribers
         /\ tx_open => /\ \A i \in DOMAIN l : Normalized(l[i]) \in again.subscribers[a].symbols
                       /\ Named(again.upstream, "SUBSCRIBE") = {Normalized(l[i]) : i \in DOMAIN l}

C10_ShortCircuitOnDisconnect ==
  (disconnected \/ trade_disconnected)
  => \A a \in strategy_client_channels, m \in Messages :
       m.id # NoId
       => \A terr \in TradeMayReject(m) :
            LET st == DispatchRequest(St, a, m, terr)
            IN /\ st.sink[a] = <<Msg(m.id, "error", DISCONNECTED, <<>>, NoId)>>
               /\ st.trade_calls = <<>>
               /\ st.upstream = <<>>
               /\ SameState(st)

\* C11: every entry of the pending-request table was inserted by send with
\* the id it assigned to a request of that address, and no entry names an
\* address whose connection handle_close has closed
C11_PendingOnlyForOpenClients ==
  \A u \in DOMAIN requests :
    /\ \E o \in owner : o.id = u /\ o.addr = requests[u]
    /\ requests[u] \notin gone

\* requests of the stream specification: login and one-stream subscribes
StreamMessages ==
  {LoginMsg(7, FALSE)} \cup {SubscribeMsg(7, <<s>>) : s \in {S_ticker, S_bbo}}

\* logins, subscribes and closes of several clients with the exchange's stream
\* frames arriving at any time
NextStream ==
  \/ \E a \in Addrs : OnConnect(a)
  \/ \E a \in Addrs, m \in StreamMessages : Dispatch(a, m, FALSE)
  \/ \E a \in Addrs : Prune(a)
  \/ \E c \in NormalStreams : ProcessStream(c)

SpecStream == Init /\ [][NextStream]_vars

\* the connected, logged-in clients whose symbol set contains the channel c
StreamTargets(c) == {a \in txs \cap DOMAIN subscribers : c \in subscribers[a].symbols}

\* the message handle_stream puts on a sink for a frame of channel c
StreamMsg(c) == Msg(NoId, "stream", NoCode, c, NoId)

\* C12: handle_stream puts a frame of channel c once on the sink of every
\* connected, logged-in client whose symbol set contains c and on no other
\* sink, in particular on none of a closed connection; and c enters the symbol
\* set of a client only in a step that sends a SUBSCRIBE naming c for that
\* client, so a client that never subscribed to c never receives a frame of c
C12_StreamFanOut ==
  /\ [](\A c \in NormalStreams :
          LET st == HandleStream(St, c)
          IN \A a \in Addrs :
               /\ st.sink[a] = IF a \in StreamTargets(c) THEN <<StreamMsg(c)>> ELSE <<>>
               /\ a \in gone => st.sink[a] = <<>>)
  /\ [][\A a \in DOMAIN subscribers' : \A c \in subscribers'[a].symbols :
          (a \notin DOMAIN subscribers \/ c \notin subscribers[a].symbols)
          => \E i \in DOMAIN upstream' :
               /\ upstream'[i].method = "SUBSCRIBE"
               /\ c \in Range(upstream'[i].params)
               /\ Owner(upstream'[i].id, a, 7, "SUBSCRIBE") \in owner']_vars

\* a frame reached the one client that holds its channel while another
\* logged-in client, which holds another channel, got nothing
C12_Witness ==
  \E a \in DOMAIN subscribers, b \in DOMAIN subscribers, c \in NormalStreams :
    /\ a # b
    /\ subscribers[b].symbols # {}
    /\ c \notin subscribers[b].symbols
    /\ sink[a] = <<StreamMsg(c)>>
    /\ sink[b] = <<>>


\* ---------------------------------------------------------------- account actions
\* the state of the account after an Account method returned acc
AccountStep(acc, c) ==
  /\ in_flight' = InFlightAfter(
        IF c.value.answers \in AccountMethods
        THEN [in_flight EXCEPT ![c.value.answers] = @ - 1] ELSE in_flight,
        acc.sent)
  /\ state' = acc.state
  /\ active_subscriptions' = acc.active_subscriptions
  /\ lifetime_subscription_count' = acc.lifetime_subscription_count
  /\ COUNTER' = acc.COUNTER
  /\ account_sent' = acc.sent
  /\ process_err' = acc.err
  /\ call' = c
  /\ UNCHANGED <<ws_client, credentials, ws_tx_open, account_disconnected>>
  /\ UNCHANGED <<mvars, cvars, wvars, xvars>>

\* Account::process, try_recv gives Ok(inner)
AccountProcess(inner) ==
  /\ ~account_disconnected
  /\ inner.answers \in AccountMethods => in_flight[inner.answers] > 0
  /\ ProcessValue(Acc, inner).COUNTER <= MaxCounter
  /\ AccountStep(ProcessValue(Acc, inner), Call("process", inner, 0))

\* Account::process, try_recv gives Empty
AccountProcessEmpty ==
  /\ ~account_disconnected
  /\ ws_tx_open
  /\ AccountStep(Acc, Call("process_empty", Unrecognised, 0))

\* Account::process, try_recv gives Disconnected: the socket task has ended
AccountProcessClosed ==
  /\ ~ws_tx_open
  /\ account_disconnected' = TRUE
  /\ account_sent' = <<>>
  /\ process_err' = FALSE
  /\ call' = Call("process_closed", Unrecognised, 0)
  /\ UNCHANGED <<state, ws_client, credentials, ws_tx_open, active_subscriptions,
                 lifetime_subscription_count, COUNTER, in_flight>>
  /\ UNCHANGED <<mvars, cvars, wvars, xvars>>

\* Account::subscribe_user_data called by the owner of the account
AccountSubscribeUserData ==
  /\ COUNTER < MaxCounter
  /\ AccountStep(SubscribeUserData(Acc), Call("subscribe_user_data", Unrecognised, 0))

\* Account::unsubscribe_user_data(subscription_id), 0 for None
AccountUnsubscribeUserData(subscription_id) ==
  /\ COUNTER < MaxCounter
  /\ AccountStep(UnsubscribeUserData(Acc, subscription_id),
                 Call("unsubscribe_user_data", Unrecognised, subscription_id))

\* Account::get_subscriptions
AccountGetSubscriptions ==
  /\ COUNTER < MaxCounter
  /\ AccountStep(GetSubscriptions(Acc), Call("get_subscriptions", Unrecognised, 0))

\* the socket of the session client drops: its task ends and the channel closes
AccountSocketDown ==
  /\ ws_tx_open
  /\ ws_tx_open' = FALSE
  /\ account_sent' = <<>>
  /\ call' = Call("socket_down", Unrecognised, 0)
  /\ UNCHANGED <<state, ws_client, credentials, active_subscriptions,
                 lifetime_subscription_count, COUNTER, account_disconnected,
                 process_err, in_flight>>
  /\ UNCHANGED <<mvars, cvars, wvars, xvars>>

\* the calls on the account, the replies it receives and the socket's drop
NextAccount ==
  \/ \E inner \in AccountValues : AccountProcess(inner)
  \/ AccountProcessEmpty
  \/ AccountProcessClosed
  \/ AccountSubscribeUserData
  \/ \E subscription_id \in SubscriptionIds \cup {0} :
       AccountUnsubscribeUserData(subscription_id)
  \/ AccountGetSubscriptions
  \/ AccountSocketDown

SpecAccount == Init /\ [][NextAccount]_vars


\* ---------------------------------------------------------------- session claims
\* the edges of the session state machine: connect, logon reply 200, logon
\* reply with another status, logout, socket drop
SessionEdge(from, to) ==
  \/ from = "Disconnected" /\ to = "Connected"
  \/ from = "Connected" /\ to = "Authenticated"
  \/ from = "Connected" /\ to = "AuthenticationFailed"
  \/ from = "Authenticated" /\ to = "Connected"
  \/ to = "Disconnected"

\* C13: while the reply to the logon of Account::new is awaited the session
\* state is Connected, and every change of the session state follows an edge
\* of the state machine; in particular Authenticated and AuthenticationFailed
\* are entered only from Connected.
C13_SessionStateEdges ==
  /\ [](call.op = "new" => state.tag = "Connected")
  /\ [][state'.tag # state.tag => SessionEdge(state.tag, state'.tag)]_vars


\* the message handle_login_response stores for a refused logon
FailureMsg(response) == IF response.error = NoError THEN "unknown" ELSE response.error

\* the last step was Account::process of a reply to method with this status
Processed(c, method) == c.op = "process" /\ c.value.reply /\ c.value.answers = method

\* the methods of the frames
SentMethods(frames) == {frames[i].method : i \in DOMAIN frames}

AuthenticatedWith(s, result) ==
  /\ s.tag = "Authenticated"
  /\ s.api_key = result.api_key
  /\ s.authorized_since = result.authorized_since
  /\ s.server_time = result.server_time
  /\ s.user_data_stream = result.user_data_stream

\* the last step processed a logon reply with status 200 and a result
LogonAccepted(c) ==
  Processed(c, "session.logon") /\ c.value.status = 200 /\ c.value.shape = "logon"

\* no userDataStream.subscribe is written unless the session is Authenticated
SubscribeOnlyWhenAuthenticated ==
  [][account_sent' # account_sent /\ "userDataStream.subscribe" \in SentMethods(account_sent')
     => state'.tag = "Authenticated"]_vars

\* C15: processing a logon reply with status 200 and a result makes the
\* session Authenticated with the result's api_key, authorized_since,
\* server_time and user_data_stream, and the step sends exactly one
\* userDataStream.subscribe with empty params; no userDataStream.subscribe is
\* sent while the session is not Authenticated.
C15_LogonThenSubscribe ==
  /\ [][LogonAccepted(call')
        => /\ AuthenticatedWith(state', call'.value.logon)
           /\ account_sent' = <<AccountFrame(COUNTER, "userDataStream.subscribe", NoParams)>>]_vars
  /\ SubscribeOnlyWhenAuthenticated

\* C15 amended: the same, the subscribe being sent when the session client's
\* sender still accepts frames; when the socket has dropped the send fails,
\* nothing is written and process returns the error.
C15_LogonThenSubscribeWhileOpen ==
  /\ [][LogonAccepted(call')
        => /\ AuthenticatedWith(state', call'.value.logon)
           /\ account_sent' = IF ws_tx_open
                THEN <<AccountFrame(COUNTER, "userDataStream.subscribe", NoParams)>>
                ELSE <<>>
           /\ process_err' = ~ws_tx_open]_vars
  /\ SubscribeOnlyWhenAuthenticated

C15_Witness ==
  /\ LogonAccepted(call)
  /\ AuthenticatedWith(state, call.value.logon)
  /\ state.api_key = "k2"
  /\ account_sent = <<AccountFrame(1, "userDataStream.subscribe", NoParams)>>
  /\ in_flight["userDataStream.subscribe"] = 1


\* C16: processing a reply to userDataStream.subscribe whose status is not 200
\* (no result) changes neither the session state nor the active subscription
\* list, and process returns without error.
C16_SubscribeErrorOnlyWarns ==
  [][/\ Processed(call', "userDataStream.subscribe")
     /\ call'.value.status # 200
     /\ call'.value.shape = "absent"
     => /\ state' = state
        /\ active_subscriptions' = active_subscriptions
        /\ ~process_err']_vars


\* C17: once Account::process has observed the closed channel and set the
\* disconnected flag, the session state is Disconnected, so is_authenticated
\* and is_connected are false.
C17_ClosedChannelDisconnectsSession ==
  account_disconnected
  => /\ state = S_Disconnected
     /\ ~IsAuthenticated(state)
     /\ ~IsConnected(state)


\* ---------------------------------------------------------------- subscription claims
\* the lists a session.subscriptions reply may carry
SubscriptionLists == {<<>>, <<1>>, <<1, 2>>, <<2, 1, 2>>, <<1, 2, 1, 2>>}

\* the limits hold in the state acc
WithinLimits(acc) ==
  /\ Len(acc.active_subscriptions) <= max_concurrent_subscriptions
  /\ acc.lifetime_subscription_count <= max_lifetime_subscriptions

\* C18: the active list never exceeds max_concurrent and the lifetime count
\* never exceeds max_lifetime, whatever subscribe replies, subscription-list
\* replies and unsubscribe calls happened; the lifetime count never decreases;
\* add_subscription appends the id and counts it iff the list is shorter than
\* max_concurrent and the count below max_lifetime, and changes nothing
\* otherwise.
C18_SubscriptionLimits ==
  /\ [](/\ WithinLimits(Acc)
        /\ \A subscription_id \in SubscriptionIds :
             AddSubscription(Acc, subscription_id) =
               IF /\ Len(active_subscriptions) < max_concurrent_subscriptions
                  /\ lifetime_subscription_count < max_lifetime_subscriptions
               THEN [Acc EXCEPT !.active_subscriptions = Append(@, subscription_id),
                                !.lifetime_subscription_count = @ + 1]
               ELSE Acc
        /\ \A list \in SubscriptionLists :
             LET acc == HandleSessionSubscriptionsResponse(Acc, SubscriptionsOk(list))
             IN /\ WithinLimits(acc)
                /\ acc.lifetime_subscription_count >= lifetime_subscription_count
        /\ \A subscription_id \in SubscriptionIds \cup {0} :
             LET acc == UnsubscribeUserData(Acc, subscription_id)
             IN /\ WithinLimits(acc)
                /\ acc.lifetime_subscription_count = lifetime_subscription_count)
  /\ [][lifetime_subscription_count' >= lifetime_subscription_count]_vars

\* a subscribe reply arrived with the lifetime limit used up and room in the
\* list: its id was not added
C18_Witness ==
  /\ Processed(call, "userDataStream.subscribe")
  /\ call.value.status = 200
  /\ call.value.shape = "subscription"
  /\ lifetime_subscription_count = max_lifetime_subscriptions
  /\ Len(active_subscriptions) < max_concurrent_subscriptions
  /\ \A i \in DOMAIN active_subscriptions :
       active_subscriptions[i] # call.value.subscription_id


\* the last step was unsubscribe_user_data
UnsubscribeCalled(c) == c.op = "unsubscribe_user_data"

\* the number of occurrences of x in the list
Occurrences(list, x) == Cardinality({i \in DOMAIN list : list[i] = x})

\* what unsubscribe_user_data does apart from the active list: on Ok exactly
\* one userDataStream.unsubscribe was sent, with {subscriptionId: id} for
\* Some(id) and {} for None, and for None the list is empty; on Err nothing
\* was sent and the list is as before
UnsubscribeSendsAndClears ==
  [][UnsubscribeCalled(call')
     => IF process_err'
        THEN /\ active_subscriptions' = active_subscriptions
             /\ account_sent' = <<>>
        ELSE /\ account_sent' =
                  <<AccountFrame(COUNTER, "userDataStream.unsubscribe",
                                 IF call'.subscription_id # 0
                                 THEN SubscriptionIdParams(call'.subscription_id)
                                 ELSE NoParams)>>
             /\ call'.subscription_id = 0 => active_subscriptions' = <<>>]_vars

ClientRequests ==
  [channel : {[tag |-> "Tickers"], [tag |-> "Candle", period |-> <<"1", "m">>]},
   args : {[instrument |-> <<<<"B", "-", "U">>>>, params |-> {}],
           [instrument |-> <<<<"b", "u">>>>, params |-> {}],
           [instrument |-> <<<<"B", "-", "U">>>>, params |-> {"sz"}]}]

\* the bound on the number of connections of the client
MaxConnects == 3

\* Args::normalized_symbol and BinanceProtocol::normalize_symbol: the hyphens
\* removed and the letters in lower case; the empty text when there is no
\* instrument (unwrap_or_default)
normalized_symbol(args) ==
  LET lower == [c \in {"B", "U", "b", "u", "-"} |->
                  IF c = "B" THEN "b" ELSE IF c = "U" THEN "u" ELSE c]
      plain(t) == SelectSeq(t, LAMBDA c : c # "-")
  IN IF args.instrument = <<>> THEN <<>>
     ELSE [i \in DOMAIN plain(args.instrument[1]) |-> lower[plain(args.instrument[1])[i]]]

\* OkxProtocol::map_channel and BinanceProtocol::map_channel, which
\* normalises the symbol it is given once more
map_channel(p, channel, inst) ==
  IF p = "okx"
  THEN IF channel.tag = "Candle"
       THEN <<"c", "a", "n", "d", "l", "e">> \o channel.period
       ELSE <<"t", "i", "c", "k", "e", "r", "s">>
  ELSE LET sym == normalized_symbol([instrument |-> <<inst>>])
       IN IF channel.tag = "Candle"
          THEN sym \o <<"@", "k", "l", "i", "n", "e", "_">> \o channel.period
          ELSE sym \o <<"@", "t", "i", "c", "k", "e", "r">>

\* WsProtocol::build_subscribe of OkxProtocol and of BinanceProtocol: the
\* key, and the subscribe and unsubscribe requests of the StoredSub
BuildSubscribe(p, channel, args) ==
  IF p = "okx"
  THEN LET subscription == [channel |-> map_channel(p, channel, <<>>),
                            instrument_id |-> args.instrument,
                            args |-> args.params]
       IN [key |-> IF subscription.instrument_id # <<>>
                   THEN subscription.channel \o <<":">> \o subscription.instrument_id[1]
                   ELSE subscription.channel,
           req_sub |-> [method |-> "subscribe", params |-> <<subscription>>, id |-> 0],
           req_unsub |-> [method |-> "unsubscribe", params |-> <<subscription>>, id |-> 0]]
  ELSE LET param == map_channel(p, channel, normalized_symbol(args))
       IN [key |-> map_channel(p, channel, normalized_symbol(args)),
           req_sub |-> [method |-> "SUBSCRIBE", params |-> <<param>>, id |-> 1],
           req_unsub |-> [method |-> "UNSUBSCRIBE", params |-> <<param>>, id |-> 1]]

\* WsProtocol::make_key of OkxProtocol and of BinanceProtocol
MakeKey(p, channel, args) ==
  IF p = "okx"
  THEN IF args.instrument # <<>>
       THEN map_channel(p, channel, <<>>) \o <<":">> \o args.instrument[1]
       ELSE map_channel(p, channel, <<>>)
  ELSE map_channel(p, channel, normalized_symbol(args))

\* the list without the key
RECURSIVE Without(_, _)
Without(list, key) ==
  IF list = <<>> THEN <<>>
  ELSE IF Head(list) = key THEN Without(Tail(list), key)
  ELSE <<Head(list)>> \o Without(Tail(list), key)

\* WebsocketClient::subscribe: the entry build_subscribe gives is stored under
\* its key, then its req_sub is sent, which fails when there is no connection
ClientSubscribe(channel, args) ==
  LET stored == BuildSubscribe(protocol, channel, args)
  IN /\ subscriptions' = MapInsert(subscriptions, stored.key, stored)
     /\ inserted' = IF stored.key \in DOMAIN subscriptions THEN inserted
                    ELSE Append(inserted, stored.key)
     /\ client_sent' = IF client_tx # 0 THEN <<stored.req_sub>> ELSE <<>>
     /\ sent_on' = client_tx
     /\ client_call' = [op |-> "subscribe", channel |-> channel, args |-> args]
     /\ UNCHANGED <<client_tx, conns, protocol>>
     /\ UNCHANGED <<client_cred, wsapi_result>>
     /\ UNCHANGED <<mvars, avars, wvars, xvars>>

\* WebsocketClient::unsubscribe: the entry under make_key is removed and its
\* req_unsub is sent; with no entry, the req_unsub of a subscription built
\* for the call
ClientUnsubscribe(channel, args) ==
  LET key == MakeKey(protocol, channel, args)
      req_unsub == IF key \in DOMAIN subscriptions THEN subscriptions[key].req_unsub
                   ELSE BuildSubscribe(protocol, channel, args).req_unsub
  IN /\ subscriptions' = [k \in DOMAIN subscriptions \ {key} |-> subscriptions[k]]
     /\ inserted' = Without(inserted, key)
     /\ client_sent' = IF client_tx # 0 THEN <<req_unsub>> ELSE <<>>
     /\ sent_on' = client_tx
     /\ client_call' = [op |-> "unsubscribe", channel |-> channel, args |-> args]
     /\ UNCHANGED <<client_tx, conns, protocol>>
     /\ UNCHANGED <<client_cred, wsapi_result>>
     /\ UNCHANGED <<mvars, avars, wvars, xvars>>

\* WebsocketClient::connect of a public client, called by the owner or by the
\* reconnect task: a new channel, then the req_sub of every value of the
\* table in the order HashMap::values gives
ClientConnect ==
  /\ conns < MaxConnects
  /\ conns' = conns + 1
  /\ client_tx' = conns + 1
  /\ \E ord \in Orderings(DOMAIN subscriptions) :
       client_sent' = [i \in DOMAIN ord |-> subscriptions[ord[i]].req_sub]
  /\ sent_on' = conns + 1
  /\ client_call' = [op |-> "connect"]
  /\ UNCHANGED <<subscriptions, inserted, protocol>>
  /\ UNCHANGED <<client_cred, wsapi_result>>
  /\ UNCHANGED <<mvars, avars, wvars, xvars>>

\* the watchdog start_reconnect_task spawned in the owner's connect(), after
\* more than 30 s without a server ping: Close on the sender it captured,
\* then connect() on its clone of the client; the clone has its own tx field
\* (Clone copies the Option<Sender>), so the new sender is stored in the
\* clone and the owner's handle keeps the sender of the connection it made
ClientReconnect ==
  /\ client_tx # 0
  /\ conns < MaxConnects
  /\ conns' = conns + 1
  /\ \E ord \in Orderings(DOMAIN subscriptions) :
       client_sent' = [i \in DOMAIN ord |-> subscriptions[ord[i]].req_sub]
  /\ sent_on' = conns + 1
  /\ client_call' = [op |-> "reconnect"]
  /\ UNCHANGED <<subscriptions, inserted, client_tx, protocol>>
  /\ UNCHANGED <<client_cred, wsapi_result>>
  /\ UNCHANGED <<mvars, avars, wvars, xvars>>

NextClient ==
  \/ \E r \in ClientRequests : ClientSubscribe(r.channel, r.args)
  \/ \E r \in ClientRequests : ClientUnsubscribe(r.channel, r.args)
  \/ ClientConnect
  \/ ClientReconnect

\* a client of either protocol
SpecClient == (\E p \in {"okx", "binance"} : InitProtocol(p)) /\ [][NextClient]_vars

\* C20: every connect of the client, the first and every reconnect, sends the
\* req_sub of every entry of the subscription table exactly once, in the order
\* in which the entries were first inserted.
C20_ReplayInInsertionOrder ==
  [][conns' # conns
     => client_sent' = [i \in DOMAIN inserted |-> subscriptions[inserted[i]].req_sub]]_vars


\* ---------------------------------------------------------------- upstream reconnect
\* the watchdog of Market.client, after more than 30 s without a server ping:
\* Close on the old sender, then connect() on its clone, which replays the
\* req_sub of every entry of the client's subscription table on the new
\* connection and drops the receiver connect() returns; Market keeps the
\* receiver and the sender of the old connection
UpstreamReconnect ==
  /\ reconnects < MaxConnects
  /\ reconnects' = reconnects + 1
  /\ \E ord \in Orderings(DOMAIN market_subscriptions) :
       upstream' = [i \in DOMAIN ord |-> market_subscriptions[ord[i]]]
  /\ sink' = [a \in Addrs |-> <<>>]
  /\ trade_calls' = <<>>
  /\ UNCHANGED <<strategy_client_channels, txs, subscribers, symbols, requests,
                 id, disconnected, trade_disconnected, tx_open, gone, owner,
                 replied, market_subscriptions>>
  /\ UNCHANGED <<avars, cvars, xvars>>

\* clients subscribe and leave while the watchdog reconnects the upstream and
\* the Market finds the channel of the old connection closed
NextReconnect ==
  \/ \E a \in Addrs : OnConnect(a)
  \/ \E a \in Addrs, m \in StreamMessages : Dispatch(a, m, FALSE)
  \/ \E a \in Addrs : Prune(a)
  \/ ProcessClosed
  \/ UpstreamReconnect

SpecReconnect == Init /\ [][NextReconnect]_vars

\* C21: the reconnect the watchdog makes subscribes, on the new connection,
\* every stream whose Market refcount is not zero.
C21_ReconnectResubscribes ==
  [][reconnects' # reconnects
     => \A s \in DOMAIN symbols :
          symbols[s] > 0
          => \E i \in DOMAIN upstream' :
               /\ upstream'[i].method = "SUBSCRIBE"
               /\ s \in Range(upstream'[i].params)]_vars

\* C22: once the watchdog has reconnected the upstream, Market.disconnected()
\* is false.
C22_ConnectedAfterReconnect == reconnects > 0 => ~disconnected


\* C23: every frame the client writes, through the owner's handle or in a
\* replay, goes to the newest connection; after a reconnect made on the
\* watchdog's clone the owner's handle writes to the new connection.
C23_SendsGoToNewestConnection == client_sent # <<>> => sent_on = conns


\* the table holds, under the key of the request, the entry subscribe stores
\* for it
HasEntry(table, r) ==
  LET stored == BuildSubscribe(protocol, r.channel, r.args)
  IN /\ MakeKey(protocol, r.channel, r.args) \in DOMAIN table
     /\ table[MakeKey(protocol, r.channel, r.args)] = stored

\* make_key and the key of build_subscribe agree on every channel and args,
\* those without an instrument included
KeysAgree ==
  \A p \in {"okx", "binance"},
     r \in ClientRequests \cup [channel : {c.channel : c \in ClientRequests},
                               args : {[instrument |-> <<>>, params |-> {}]}] :
    MakeKey(p, r.channel, r.args) = BuildSubscribe(p, r.channel, r.args).key

\* C24: the table holds an entry for exactly the (channel, args) whose most
\* recent call was subscribe: make_key agrees with the key of build_subscribe,
\* a subscribe leaves the entry of its (channel, args) in the table, an
\* unsubscribe leaves none and sends the req_unsub of that entry, and neither
\* changes whether another (channel, args) has its entry.
C24_TableFollowsLastCall ==
  /\ [](KeysAgree)
  /\ [][client_call'.op \in {"subscribe", "unsubscribe"}
        => /\ \A r \in ClientRequests :
                IF r = [channel |-> client_call'.channel, args |-> client_call'.args]
                THEN HasEntry(subscriptions', r) <=> client_call'.op = "subscribe"
                ELSE HasEntry(subscriptions', r) <=> HasEntry(subscriptions, r)
           /\ (client_call'.op = "unsubscribe" /\ client_tx # 0)
                => client_sent' = <<BuildSubscribe(protocol, client_call'.channel,
                                                   client_call'.args).req_unsub>>]_vars


\* C25: every prune of a client removes it from the handler's channel map,
\* removes its sink and its subscriber from Market with the refcounts of its
\* streams decremented, and calls trade.handle_close for its address, also
\* when the upstream is down.
C25_PruneRunsAllThree ==
  [][\A a \in Addrs :
       (a \in gone' /\ a \notin gone)
         => /\ a \notin strategy_client_channels'
            /\ a \notin txs'
            /\ a \notin DOMAIN subscribers'
            /\ \A s \in DOMAIN symbols :
                 (a \in DOMAIN subscribers /\ s \in subscribers[a].symbols)
                   => IF symbols[s] = 1 THEN s \notin DOMAIN symbols'
                      ELSE symbols'[s] = symbols[s] - 1
            /\ \E i \in DOMAIN trade_calls' :
                 trade_calls'[i] = [op |-> "handle_close", addr |-> a]]_vars


\* ---------------------------------------------------------------- drain passes
\* the cap on the frames of one client taken in one drain pass (16 in the
\* source), scaled down so that a queue can exceed it
MAX_CLIENT_MSG_BATCH == 2

\* the bound on the frames one client sends
MaxSent == 3

\* a Close frame; the members other than method are not read
CloseFrame(n) ==
  [id |-> n, method |-> "close", ok |-> TRUE, streams |-> <<>>, trading |-> FALSE]

\* the client puts its next frame, whose request id is its number, into its
\* channel to the handler
ClientSend(a, m) ==
  /\ a \in strategy_client_channels
  /\ a \notin closed
  /\ \A i \in DOMAIN queue[a] : queue[a][i].method # "close"
  /\ sent_n[a] < MaxSent
  /\ m.id = sent_n[a] + 1
  /\ queue' = [queue EXCEPT ![a] = Append(@, m)]
  /\ sent_n' = [sent_n EXCEPT ![a] = @ + 1]
  /\ batch' = <<>>
  /\ visited' = {}
  /\ Quiet
  /\ UNCHANGED <<closed, dispatched>>
  /\ UNCHANGED <<strategy_client_channels, txs, subscribers, symbols, requests,
                 id, disconnected, trade_disconnected, tx_open, gone, owner, replied>>
  /\ UNCHANGED <<avars, cvars, wvars, svars, kvars, ovars, rvars>>

\* the client's connection task ends and drops its end of the channel
ClientDrop(a) ==
  /\ a \in strategy_client_channels
  /\ a \notin closed
  /\ closed' = closed \cup {a}
  /\ batch' = <<>>
  /\ visited' = {}
  /\ Quiet
  /\ UNCHANGED <<queue, sent_n, dispatched>>
  /\ UNCHANGED <<strategy_client_channels, txs, subscribers, symbols, requests,
                 id, disconnected, trade_disconnected, tx_open, gone, owner, replied>>
  /\ UNCHANGED <<avars, cvars, wvars, svars, kvars, ovars, rvars>>

\* a loop that takes the newest frames of the queue
TryRecvBatch_newest(q) ==
  SubSeq(q, Len(q) - (IF Len(q) < MAX_CLIENT_MSG_BATCH THEN Len(q) ELSE MAX_CLIENT_MSG_BATCH) + 1,
         Len(q))

\* a loop without the cap
TryRecvBatch_all(q) == q

\* the inner loop of drain_strategy_client_messages: try_recv until the queue
\* is empty or MAX_CLIENT_MSG_BATCH frames were taken
TryRecvBatch(q) ==
  SubSeq(q, 1, IF Len(q) < MAX_CLIENT_MSG_BATCH THEN Len(q) ELSE MAX_CLIENT_MSG_BATCH)

\* the first loop, over the channel map in the order its iterator gives: for
\* each client the frames taken, then, when try_recv failed on a closed
\* channel, the entry that asks for a prune
RECURSIVE CollectAll(_)
CollectAll(ord) ==
  IF ord = <<>> THEN <<>>
  ELSE LET a == Head(ord)
           got == TryRecvBatch(queue[a])
       IN [i \in DOMAIN got |-> [addr |-> a, result |-> <<got[i]>>, is_closed |-> FALSE]]
          \o (IF Len(got) < MAX_CLIENT_MSG_BATCH /\ a \in closed
              THEN <<[addr |-> a, result |-> <<>>, is_closed |-> TRUE]>> ELSE <<>>)
          \o CollectAll(Tail(ord))

\* the second loop: a Close frame and a closed channel prune the client (the
\* requests here name one stream, so the UNSUBSCRIBE has one order), every
\* other frame is parsed and dispatched, an error is logged and the loop goes
\* on; the login handler returns at once for a client that is no longer in
\* the channel map
RECURSIVE ProcessBatch(_, _)
ProcessBatch(acc, b) ==
  IF b = <<>> THEN acc
  ELSE LET e == Head(b)
           a == e.addr
           frame == e.result # <<>>
           st == IF frame /\ e.result[1].method # "close"
                 THEN IF a \in acc.pruned /\ e.result[1].method = "login" THEN acc.st
                      ELSE DispatchRequest(acc.st, a, e.result[1], FALSE)
                 ELSE PruneResult(acc.st, a,
                                  CHOOSE ord \in Orderings(ZeroAtClose(acc.st, a)) : TRUE)
       IN ProcessBatch([st |-> [st EXCEPT !.err = FALSE],
                        pruned |-> IF frame /\ e.result[1].method # "close" THEN acc.pruned
                                   ELSE acc.pruned \cup {a},
                        log |-> IF frame THEN Append(acc.log, [addr |-> a, id |-> e.result[1].id])
                                ELSE acc.log],
                       Tail(b))

\* drain_strategy_client_messages: one pass, wherever the loop calls it from
Drain ==
  /\ \E ord \in Orderings(strategy_client_channels) :
       LET b == CollectAll(ord)
           res == ProcessBatch([st |-> St, pruned |-> {}, log |-> <<>>], b)
           done(a) == SelectSeq(res.log, LAMBDA e : e.addr = a)
       IN /\ Fits(res.st)
          /\ Store(res.st)
          /\ batch' = b
          /\ strategy_client_channels' = strategy_client_channels \ res.pruned
          /\ gone' = gone \cup res.pruned
          /\ queue' = [a \in Addrs |->
                         IF a \in res.pruned THEN <<>>
                         ELSE IF a \in strategy_client_channels
                         THEN SubSeq(queue[a], Len(TryRecvBatch(queue[a])) + 1, Len(queue[a]))
                         ELSE queue[a]]
          /\ dispatched' = [a \in Addrs |->
                              dispatched[a] \o [i \in DOMAIN done(a) |-> done(a)[i].id]]
  /\ visited' = strategy_client_channels
  /\ UNCHANGED <<sent_n, closed>>
  /\ UNCHANGED <<disconnected, trade_disconnected, tx_open, replied>>
  /\ UNCHANGED <<avars, cvars, wvars, kvars, ovars, rvars>>

\* clients connect, send logins and Close frames and, as their second frame, a
\* subscribe, and drop their channels, between the drain passes of the handler
NextDrain ==
  \/ \E a \in Addrs : OnConnect(a)
  \/ \E a \in Addrs, n \in 1..MaxSent :
       \E m \in {LoginMsg(n, FALSE), CloseFrame(n)}
                \cup (IF n = 2 THEN {SubscribeMsg(n, <<S_ticker>>)} ELSE {}) :
         ClientSend(a, m)
  \/ \E a \in Addrs : ClientDrop(a)
  \/ Drain /\ UNCHANGED svars

SpecDrain == Init /\ [][NextDrain]_vars

\* the step is a drain pass: clients were visited and none was added
DrainPass ==
  /\ visited' # {}
  /\ strategy_client_channels' \subseteq strategy_client_channels

\* the ids in strictly increasing order
Increasing(ids) == \A i, j \in DOMAIN ids : i < j => ids[i] < ids[j]

\* C26: the frames of one client are processed in the order the client sent
\* them, none skipped, over all drain passes and whatever the other clients
\* send; the replies one pass puts on its sink answer requests of that pass
\* in request order.
C26_DispatchedInSendOrder ==
  /\ [](\A a \in Addrs : dispatched[a] = [i \in DOMAIN dispatched[a] |-> i])
  /\ [][DrainPass
        => \A a \in Addrs :
             /\ Increasing([i \in DOMAIN sink'[a] |-> sink'[a][i].id])
             /\ \A i \in DOMAIN sink'[a] :
                  \E j \in DOMAIN batch' :
                    /\ batch'[j].addr = a
                    /\ batch'[j].result # <<>>
                    /\ batch'[j].result[1].id = sink'[a][i].id]_vars

\* a client whose queue exceeded the cap had its frames processed over two
\* passes, with replies on its sink, while the other client was served too
C26_Witness ==
  /\ Len(dispatched["a1"]) > MAX_CLIENT_MSG_BATCH
  /\ dispatched["a2"] # <<>>
  /\ sink["a1"] # <<>>
  /\ batch # <<>>

\* C27: a drain pass takes at most MAX_CLIENT_MSG_BATCH frames of any one
\* client, and of every client with a frame queued it takes and processes at
\* least the first.
C27_BatchCapAndFairness ==
  [][DrainPass
     => \A a \in visited' :
          LET mine == SelectSeq(batch', LAMBDA e : e.addr = a /\ e.result # <<>>)
          IN /\ Len(mine) <= MAX_CLIENT_MSG_BATCH
             /\ queue[a] # <<>>
                  => /\ mine # <<>>
                     /\ mine[1].result[1] = queue[a][1]
                     /\ Len(dispatched'[a]) > Len(dispatched[a])]_vars

\* one pass took the full cap of one client, left the rest of its queue, and
\* took a frame of the other client
C27_Witness ==
  /\ visited = Addrs
  /\ Len(SelectSeq(batch, LAMBDA e : e.addr = "a1" /\ e.result # <<>>)) = MAX_CLIENT_MSG_BATCH
  /\ queue["a1"] # <<>>
  /\ \E i \in DOMAIN batch : batch[i].addr = "a2" /\ batch[i].result # <<>>


\* ---------------------------------------------------------------- shutdown
\* accept_strategy_clients, the accept branch: the listener accepts a
\* connection and the acceptor sends it to the handler; the send fails once
\* Handler::process has returned and dropped the receiver, and the error
\* leaves the acceptor through `?`
Accept(a) ==
  /\ acceptor = "running"
  /\ a \notin accepted
  /\ accepted' = accepted \cup {a}
  /\ IF pc # "exited"
     THEN client_conn' = Append(client_conn, a) /\ acceptor' = acceptor
     ELSE client_conn' = client_conn /\ acceptor' = "failed"
  /\ Quiet
  /\ UNCHANGED <<keep_running, pc, stop_sent>>
  /\ UNCHANGED <<strategy_client_channels, txs, subscribers, symbols, requests,
                 id, disconnected, trade_disconnected, tx_open, gone, owner, replied>>
  /\ UNCHANGED <<avars, cvars, wvars, hvars, kvars, ovars, rvars>>

\* one select of Handler::process: a new connection is registered
\* (on_strategy_client_connect), or a signal calls stop(), or the tick, the
\* market or the trade branch ran without touching the state kept here
LoopSelect(branch) ==
  /\ pc = "select"
  /\ pc' = "drain"
  /\ CASE branch = "connect" ->
            /\ client_conn # <<>>
            /\ txs' = txs \cup {Head(client_conn)}
            /\ strategy_client_channels' = strategy_client_channels \cup {Head(client_conn)}
            /\ client_conn' = Tail(client_conn)
            /\ UNCHANGED keep_running
       [] branch = "signal" ->
            /\ keep_running' = FALSE
            /\ UNCHANGED <<txs, strategy_client_channels, client_conn>>
       [] OTHER -> UNCHANGED <<keep_running, txs, strategy_client_channels, client_conn>>
  /\ Quiet
  /\ UNCHANGED <<stop_sent, acceptor, accepted>>
  /\ UNCHANGED <<subscribers, symbols, requests, id, disconnected,
                 trade_disconnected, tx_open, gone, owner, replied>>
  /\ UNCHANGED <<avars, cvars, wvars, hvars, kvars, ovars, rvars>>

\* the drain pass after every select, then the test of `while self.keep_running`
LoopDrain ==
  /\ pc = "drain"
  /\ Drain
  /\ pc' = IF keep_running THEN "select" ELSE "exited"
  /\ UNCHANGED <<keep_running, stop_sent, acceptor, client_conn, accepted>>

\* the handler task after process() returned: stop_tx.send(())
HandlerExit ==
  /\ pc = "exited"
  /\ ~stop_sent
  /\ stop_sent' = TRUE
  /\ Quiet
  /\ UNCHANGED <<keep_running, pc, acceptor, client_conn, accepted>>
  /\ UNCHANGED <<strategy_client_channels, txs, subscribers, symbols, requests,
                 id, disconnected, trade_disconnected, tx_open, gone, owner, replied>>
  /\ UNCHANGED <<avars, cvars, wvars, hvars, kvars, ovars, rvars>>

\* accept_strategy_clients, the stop branch of its select
AcceptorStop ==
  /\ acceptor = "running"
  /\ stop_sent
  /\ acceptor' = "stopped"
  /\ Quiet
  /\ UNCHANGED <<keep_running, pc, stop_sent, client_conn, accepted>>
  /\ UNCHANGED <<strategy_client_channels, txs, subscribers, symbols, requests,
                 id, disconnected, trade_disconnected, tx_open, gone, owner, replied>>
  /\ UNCHANGED <<avars, cvars, wvars, hvars, kvars, ovars, rvars>>

\* the handler task and the acceptor, with clients that connect and send
NextShutdown ==
  \/ \E a \in Addrs : Accept(a)
  \/ \E branch \in {"connect", "signal", "tick"} : LoopSelect(branch)
  \/ LoopDrain
  \/ HandlerExit
  \/ AcceptorStop
  \/ \E a \in Addrs, n \in 1..MaxSent :
       \E m \in {LoginMsg(n, FALSE), CloseFrame(n)} : ClientSend(a, m)

SpecShutdown == Init /\ [][NextShutdown]_vars

\* a signal clears keep_running in a select, the loop returns only from the
\* drain pass that follows, the stop signal is sent only after the return and
\* the acceptor stops only on the stop signal
ShutdownOrder ==
  /\ [][(keep_running /\ ~keep_running') => (pc = "select" /\ pc' = "drain")]_vars
  /\ [][(pc' = "exited" /\ pc # "exited") => (pc = "drain" /\ ~keep_running)]_vars
  /\ [][(stop_sent' /\ ~stop_sent) => pc = "exited"]_vars
  /\ [][(acceptor' = "stopped" /\ acceptor # "stopped") => stop_sent]_vars

\* C28: after a signal the dispatch loop clears keep_running, runs one more
\* drain pass and returns, then the stop signal is sent and the acceptor
\* stops; no client connection is accepted after the dispatcher has exited.
C28_ShutdownStopsAccepting ==
  /\ ShutdownOrder
  /\ [][accepted' # accepted => pc # "exited"]_vars

\* ---------------------------------------------------------------- heartbeat and watchdog
\* the watchdog polls every 5 s and reconnects when last_ping_time is more
\* than 30 s old, that is on the first poll after more than this many polls
IDLE_POLLS == 6

\* the heartbeat interval of 15 s in polls of the watchdog
HEARTBEAT_POLLS == 3

\* the counter after one more poll; beyond the threshold all values behave alike
Older(n) == IF n > IDLE_POLLS THEN n ELSE n + 1

\* the ping the timer branch builds from WsProtocol::ping_text: the text
\* `ping` for OKX, a transport-level Ping for the Binance protocols
PingFrame == IF protocol = "okx" THEN "text ping" ELSE "Ping"

\* handle_ws_message (and the None arm of the caller) on what read.next()
\* gave, by kind: a text frame holding JSON, a text frame that does not parse,
\* the text frame `pong`, which does not parse either, Ping, Pong, another
\* frame, a receive error, the end of the stream; the result says whether the
\* loop goes on, the value put into tx_out, the frame put into tx_in,
\* waiting_pong afterwards and whether last_ping_time was written
HandleWsMessage(kind, waiting) ==
  [ok |-> CASE kind = "text" -> rx_out_open
            [] kind \in {"error", "end"} -> FALSE
            [] OTHER -> TRUE,
   delivered |-> IF kind = "text" /\ rx_out_open THEN <<"value">> ELSE <<>>,
   sent |-> IF kind = "ping" /\ tx_in_open THEN <<"Pong">> ELSE <<>>,
   waiting |-> IF kind = "pong" THEN FALSE ELSE waiting,
   ping |-> kind = "ping"]

\* run_ws_with_heartbeat, the read branch of its select; the frame that
\* answers a ping is a Pong for the Binance protocols and the text `pong`
\* for OKX
Ingress(kind) ==
  LET r == HandleWsMessage(kind, waiting_pong)
  IN /\ hb_running
     /\ hb_event' = kind
     /\ hb_running' = r.ok
     /\ hb_delivered' = r.delivered
     /\ hb_sent' = r.sent
     /\ waiting_pong' = r.waiting
     /\ since_ping' = IF r.ping THEN 0 ELSE since_ping
     /\ since_frame' = IF kind \in {"error", "end"} THEN since_frame ELSE 0
     /\ since_iter' = 0
     /\ ping_answered' = (ping_answered
                          \/ (waiting_pong /\ kind = (IF protocol = "okx" THEN "textpong"
                                                      ELSE "pong")))
     /\ reconnected' = FALSE
     /\ UNCHANGED <<tx_in_open, rx_out_open>>
     /\ UNCHANGED <<mvars, avars, cvars, wvars, hvars, svars, ovars, rvars>>

\* a frame whose text does not matter is read
ReadNext(kind) ==
  /\ Ingress(kind)
  /\ UNCHANGED <<frames_in, frames_out>>

\* a timer branch that pings on every tick and never gives up
HeartbeatTimer_always ==
  /\ hb_running
  /\ since_iter = HEARTBEAT_POLLS
  /\ hb_event' = "timer"
  /\ hb_sent' = <<PingFrame>>
  /\ waiting_pong' = TRUE
  /\ hb_delivered' = <<>>
  /\ since_iter' = 0
  /\ ping_answered' = FALSE
  /\ reconnected' = FALSE
  /\ UNCHANGED <<hb_running, tx_in_open, rx_out_open, since_ping, since_frame,
                 frames_in, frames_out>>
  /\ UNCHANGED <<mvars, avars, cvars, wvars, hvars, svars, ovars, rvars>>

\* run_ws_with_heartbeat, the timer branch of its select, which a sleep of
\* the heartbeat interval started at the top of the iteration fires: with no
\* ping outstanding a ping is put into tx_in, and the loop breaks when that
\* fails; with a ping outstanding the loop breaks
HeartbeatTimer ==
  /\ hb_running
  /\ since_iter = HEARTBEAT_POLLS
  /\ hb_event' = "timer"
  /\ IF ~waiting_pong /\ tx_in_open
     THEN /\ hb_sent' = <<PingFrame>>
          /\ waiting_pong' = TRUE
          /\ hb_running' = TRUE
          /\ ping_answered' = FALSE
     ELSE /\ hb_sent' = <<>>
          /\ waiting_pong' = waiting_pong
          /\ hb_running' = FALSE
          /\ ping_answered' = ping_answered
  /\ hb_delivered' = <<>>
  /\ since_iter' = 0
  /\ reconnected' = FALSE
  /\ UNCHANGED <<tx_in_open, rx_out_open, since_ping, since_frame,
                 frames_in, frames_out>>
  /\ UNCHANGED <<mvars, avars, cvars, wvars, hvars, svars, ovars, rvars>>

\* the egress pump of connect() ends on a write error
EgressEnds ==
  /\ tx_in_open
  /\ tx_in_open' = FALSE
  /\ hb_event' = "egress"
  /\ hb_sent' = <<>>
  /\ hb_delivered' = <<>>
  /\ reconnected' = FALSE
  /\ UNCHANGED <<hb_running, waiting_pong, rx_out_open, since_ping, since_frame,
                 since_iter, ping_answered, frames_in, frames_out>>
  /\ UNCHANGED <<mvars, avars, cvars, wvars, hvars, svars, ovars, rvars>>

\* 5 s pass, which they cannot while the heartbeat timer is due, and the task
\* start_reconnect_task spawned polls: when last_ping_time is more than 30 s
\* old, Close goes to the sender and connect() runs on the clone; a connect()
\* that succeeds starts the loops of a new connection, its receiver is
\* dropped at once, and nothing writes last_ping_time
WatchdogPoll(connects) ==
  LET should_reconnect == Older(since_ping) > IDLE_POLLS
  IN /\ hb_running => since_iter < HEARTBEAT_POLLS
     /\ hb_event' = "poll"
     /\ since_ping' = Older(since_ping)
     /\ reconnected' = should_reconnect
     /\ hb_sent' = IF should_reconnect /\ tx_in_open THEN <<"Close">> ELSE <<>>
     /\ hb_delivered' = <<>>
     /\ IF should_reconnect /\ connects
        THEN /\ hb_running' = TRUE
             /\ waiting_pong' = FALSE
             /\ tx_in_open' = TRUE
             /\ rx_out_open' = FALSE
             /\ since_frame' = 0
             /\ since_iter' = 0
             /\ ping_answered' = FALSE
             /\ frames_in' = <<>>
             /\ frames_out' = <<>>
        ELSE /\ since_frame' = Older(since_frame)
             /\ since_iter' = IF hb_running THEN since_iter + 1 ELSE since_iter
             /\ UNCHANGED <<hb_running, waiting_pong, tx_in_open, rx_out_open,
                            ping_answered, frames_in, frames_out>>
     /\ UNCHANGED <<mvars, avars, cvars, wvars, hvars, svars, ovars, rvars>>

\* one connection of the client: frames arrive, the heartbeat timer fires,
\* the egress pump may end, the watchdog polls
NextKeepalive ==
  \/ \E kind \in {"text", "badtext", "textpong", "ping", "pong", "other", "error", "end"} :
       ReadNext(kind)
  \/ HeartbeatTimer
  \/ EgressEnds
  \/ \E connects \in BOOLEAN : WatchdogPoll(connects)

\* a client of either protocol
SpecKeepalive ==
  (\E p \in {"okx", "binance"} : InitProtocol(p)) /\ [][NextKeepalive]_vars

\* a Pong clears waiting_pong, a timer tick with a ping outstanding ends the
\* loop, and a loop that has ended delivers nothing more
PongTimeoutAndSilence ==
  /\ [][hb_event' = "pong" => ~waiting_pong']_vars
  /\ [][(hb_event' = "timer" /\ waiting_pong) => ~hb_running']_vars
  /\ [][~hb_running => hb_delivered' = <<>>]_vars

\* C29 as stated: a timer tick with no ping outstanding sends one ping and
\* marks it outstanding, a Pong clears the mark, a tick with a ping
\* outstanding ends the loop, and after that nothing is delivered.
C29_HeartbeatLoop ==
  /\ [][(hb_event' = "timer" /\ ~waiting_pong)
          => (hb_sent' = <<PingFrame>> /\ waiting_pong' /\ hb_running')]_vars
  /\ PongTimeoutAndSilence

\* C29: a timer tick with no ping outstanding sends one ping and marks it
\* outstanding as long as the egress pump takes it, and ends the loop with
\* nothing marked when the pump has ended; a Pong clears the mark, a tick
\* with a ping outstanding ends the loop, and after that nothing is delivered.
C29_HeartbeatLoopWhileEgressOpen ==
  /\ [][(hb_event' = "timer" /\ ~waiting_pong)
          => IF tx_in_open
             THEN hb_sent' = <<PingFrame>> /\ waiting_pong' /\ hb_running'
             ELSE hb_sent' = <<>> /\ ~waiting_pong' /\ ~hb_running']_vars
  /\ PongTimeoutAndSilence

\* the loop has ended on a tick that found its ping unanswered
C29_Witness ==
  /\ hb_event = "timer"
  /\ waiting_pong
  /\ ~hb_running
  /\ tx_in_open

\* C30: the watchdog closes and reconnects a connection only when that
\* connection has given no frame of any kind for more than 30 s, counted
\* from the moment it was made.
C30_ReconnectOnlyWhenSilent ==
  [][reconnected' => Older(since_frame) > IDLE_POLLS]_vars


\* time passes and a timer that is due fires: the sleep of the heartbeat
\* loop and the interval of the watchdog are timers of the runtime
FairKeepalive ==
  /\ SpecKeepalive
  /\ WF_vars(HeartbeatTimer)
  /\ WF_vars(\E connects \in BOOLEAN : WatchdogPoll(connects))

\* C31: when the egress pump of a connection has ended on a failed write,
\* the ingress/heartbeat loop of that connection stops as well (which closes
\* the caller's receiver), whatever the exchange keeps sending, unless the
\* connection is replaced first.
C31_EgressFailureTearsDown ==
  (~tx_in_open) ~> (~hb_running \/ tx_in_open)

\* ---------------------------------------------------------------- text frames of a connection
\* the number of text frames followed on one connection
MaxFrames == 2

\* the texts the exchange sends: two JSON numbers, one of them after a blank,
\* and two texts that are not JSON
Texts == {<<"1">>, <<" ", "2">>, <<"p", "o", "n", "g">>, <<"{">>}

\* serde_json::from_str on a text: blanks around the value are skipped, and
\* of the values only a number of one digit is read here
FromStr(text) ==
  LET body == SelectSeq(text, LAMBDA c : c # " ")
      digit == [c \in {"0", "1", "2", "3", "4", "5", "6", "7", "8", "9"} |->
                  CASE c = "0" -> 0 [] c = "1" -> 1 [] c = "2" -> 2 [] c = "3" -> 3
                    [] c = "4" -> 4 [] c = "5" -> 5 [] c = "6" -> 6 [] c = "7" -> 7
                    [] c = "8" -> 8 [] OTHER -> 9]
  IN IF Len(body) = 1 /\ body[1] \in DOMAIN digit
     THEN [ok |-> TRUE, value |-> digit[body[1]]]
     ELSE [ok |-> FALSE, value |-> 0]

\* what the Text arm of handle_ws_message makes of a text
FrameKind(text) ==
  CASE FromStr(text).ok -> "text"
    [] text = <<"p", "o", "n", "g">> -> "textpong"
    [] OTHER -> "badtext"

\* a Text arm whose value overtakes the values sent before
ReadText_overtaking(text) ==
  /\ Len(frames_in) < MaxFrames
  /\ Ingress(FrameKind(text))
  /\ frames_in' = Append(frames_in, text)
  /\ frames_out' = IF hb_delivered' # <<>>
                   THEN <<FromStr(text).value>> \o frames_out
                   ELSE frames_out

\* run_ws_with_heartbeat reads a text frame: the value parsed from it goes
\* into tx_out, behind the values sent before
ReadText(text) ==
  /\ Len(frames_in) < MaxFrames
  /\ Ingress(FrameKind(text))
  /\ frames_in' = Append(frames_in, text)
  /\ frames_out' = IF hb_delivered' # <<>>
                   THEN Append(frames_out, FromStr(text).value)
                   ELSE frames_out

\* one connection whose text frames are followed
NextIngress ==
  \/ \E text \in Texts : ReadText(text)
  \/ \E kind \in {"ping", "pong", "other", "error", "end"} : ReadNext(kind)
  \/ HeartbeatTimer
  \/ EgressEnds
  \/ \E connects \in BOOLEAN : WatchdogPoll(connects)

SpecIngress ==
  (\E p \in {"okx", "binance"} : InitProtocol(p)) /\ [][NextIngress]_vars

\* the values parsed from the texts of a sequence of frames that parse
RECURSIVE ParsedValues(_)
ParsedValues(texts) ==
  IF texts = <<>> THEN <<>>
  ELSE (IF FromStr(Head(texts)).ok THEN <<FromStr(Head(texts)).value>> ELSE <<>>)
       \o ParsedValues(Tail(texts))

\* C32: as long as the caller holds the receiver, the values put into it are
\* exactly the values of the text frames read that parse as JSON, in the
\* order the frames were read; a text frame that does not parse is dropped
\* and the loop goes on.
C32_ValuesAreParsedFramesInOrder ==
  /\ [](rx_out_open => frames_out = ParsedValues(frames_in))
  /\ [][(hb_event' \in {"badtext", "textpong"}) => (hb_running' /\ frames_out' = frames_out)]_vars

\* a frame that parses was read after one that does not, and its value was
\* delivered
C32_Witness ==
  /\ Len(frames_in) = 2
  /\ ~FromStr(frames_in[1]).ok
  /\ frames_out = <<2>>
  /\ hb_running

\* ---------------------------------------------------------------- signed WS-API requests
\* the keys of request parameters in the order String::cmp gives them
KeyOrder == <<"apiKey", "recvWindow", "signature", "symbol", "timestamp">>

KeyRank(k) == CHOOSE i \in DOMAIN KeyOrder : KeyOrder[i] = k

\* JSON values: a string or a number
JsonString(s) == [t |-> "string", s |-> s, n |-> 0]
JsonNumber(n) == [t |-> "number", s |-> "", n |-> n]

\* the parameter maps a caller passes
CallerParams ==
  LET all == [k \in {"recvWindow", "signature", "symbol"} |->
                CASE k = "recvWindow" -> JsonNumber(5)
                  [] k = "signature" -> JsonString("old")
                  [] OTHER -> JsonString("BTCUSDT")]
  IN {[k \in S |-> all[k]] : S \in SUBSET {"recvWindow", "signature", "symbol"}}

\* what generate_timestamp_websocket gives
Timestamps == {"1700", "x"}

\* timestamp.parse::<i64>().unwrap_or(0)
ParseI64(text) == IF text = "1700" THEN 1700 ELSE 0

\* the credentials of a client: none, a key Ed25519 signing fails on, a key
\* it succeeds on
Creds == {"none", "bad", "good"}
ApiKey == "k"

\* sign_ed25519_base64: the signature of a payload, or an error
SignEd25519(cred, payload) ==
  IF cred = "good" THEN [ok |-> TRUE, signature |-> "sig(" \o payload \o ")"]
  ELSE [ok |-> FALSE, signature |-> ""]

\* a map in the order a BTreeMap iterates it: ascending by key
RECURSIVE BTreeKeys(_)
BTreeKeys(S) ==
  IF S = {} THEN <<>>
  ELSE LET least == CHOOSE k \in S : \A x \in S : KeyRank(k) <= KeyRank(x)
       IN <<least>> \o BTreeKeys(S \ {least})

\* pairs.sort_by(|a, b| a.0.cmp(&b.0)) on a list of keys
RECURSIVE SortByKey(_)
SortByKey(keys) ==
  IF keys = <<>> THEN <<>>
  ELSE LET rest == SortByKey(Tail(keys))
           before == SelectSeq(rest, LAMBDA k : KeyRank(k) < KeyRank(Head(keys)))
           after == SelectSeq(rest, LAMBDA k : KeyRank(k) >= KeyRank(Head(keys)))
       IN before \o <<Head(keys)>> \o after

\* the value of a pair: a string as it is, another value as its JSON text
ValueString(v) == IF v.t = "string" THEN v.s ELSE ToString(v.n)

\* format!("{}={}", k, v) of every pair, joined with "&"
RECURSIVE JoinPairs(_, _)
JoinPairs(keys, params) ==
  IF keys = <<>> THEN ""
  ELSE Head(keys) \o "=" \o ValueString(params[Head(keys)])
       \o (IF Len(keys) > 1 THEN "&" ELSE "") \o JoinPairs(Tail(keys), params)

\* the parameters after apiKey and timestamp have been inserted
WithAuth(params, timestamp) ==
  MapInsert(MapInsert(params, "apiKey", JsonString(ApiKey)),
            "timestamp", JsonNumber(ParseI64(timestamp)))

\* the payload wsapi_call_signed signs: every pair of the map, sorted by key
WsapiPayload(params, timestamp) ==
  LET p == WithAuth(params, timestamp)
  IN JoinPairs(SortByKey(BTreeKeys(DOMAIN p)), p)

\* BinanceWsApiProtocol::build_signature_payload on the string_params of
\* build_signed_request: every pair but `signature`, in the order of the
\* BTreeMap
BuildSignaturePayload(params, timestamp) ==
  LET p == WithAuth(params, timestamp)
  IN JoinPairs(BTreeKeys(DOMAIN p \ {"signature"}), p)

\* BinanceWsApiProtocol::build_signed_request: None when signing fails
BuildSignedRequest(cred, method, params, timestamp) ==
  LET signed == SignEd25519(cred, BuildSignaturePayload(params, timestamp))
  IN IF signed.ok
     THEN <<[method |-> method,
             params |-> MapInsert(WithAuth(params, timestamp), "signature",
                                  JsonString(signed.signature))]>>
     ELSE <<>>

\* WebsocketClient::new_private: a client that holds credentials
ClientNewPrivate(cred) ==
  /\ client_call.op = "new"
  /\ client_cred = "none"
  /\ cred # "none"
  /\ client_cred' = cred
  /\ UNCHANGED <<subscriptions, inserted, client_tx, client_sent, sent_on, conns,
                 protocol, client_call, wsapi_result>>
  /\ UNCHANGED <<mvars, avars, wvars, xvars>>

\* WebsocketClient::wsapi_call: the request goes out through send_raw_json
WsapiCall(method, params) ==
  /\ client_sent' = IF client_tx # 0 THEN <<[method |-> method, params |-> params]>>
                    ELSE <<>>
  /\ sent_on' = client_tx
  /\ wsapi_result' = IF client_tx # 0 THEN "Ok" ELSE "WebSocketError"
  /\ client_call' = [op |-> "wsapi_call", method |-> method, params |-> params,
                     timestamp |-> ""]
  /\ UNCHANGED <<subscriptions, inserted, client_tx, conns, protocol, client_cred>>
  /\ UNCHANGED <<mvars, avars, wvars, xvars>>

\* a wsapi_call_signed that sends the request unsigned when it cannot sign
WsapiCallSigned_unsigned(method, params, timestamp) ==
  /\ client_sent' = IF client_tx # 0 THEN <<[method |-> method, params |-> params]>>
                    ELSE <<>>
  /\ sent_on' = client_tx
  /\ wsapi_result' = IF client_tx # 0 THEN "Ok" ELSE "WebSocketError"
  /\ client_call' = [op |-> "wsapi_call_signed", method |-> method, params |-> params,
                     timestamp |-> timestamp]
  /\ UNCHANGED <<subscriptions, inserted, client_tx, conns, protocol, client_cred>>
  /\ UNCHANGED <<mvars, avars, wvars, xvars>>

\* WebsocketClient::wsapi_call_signed: AuthenticationError without
\* credentials and when signing fails; else the parameters with apiKey,
\* timestamp and the signature of the payload go out through send_raw_json
WsapiCallSigned(method, params, timestamp) ==
  LET signed == SignEd25519(client_cred, WsapiPayload(params, timestamp))
      req == [method |-> method,
              params |-> MapInsert(WithAuth(params, timestamp), "signature",
                                   JsonString(signed.signature))]
  IN /\ IF client_cred = "none" \/ ~signed.ok
        THEN /\ wsapi_result' = "AuthenticationError"
             /\ client_sent' = <<>>
        ELSE /\ wsapi_result' = IF client_tx # 0 THEN "Ok" ELSE "WebSocketError"
             /\ client_sent' = IF client_tx # 0 THEN <<req>> ELSE <<>>
     /\ sent_on' = client_tx
     /\ client_call' = [op |-> "wsapi_call_signed", method |-> method, params |-> params,
                        timestamp |-> timestamp]
     /\ UNCHANGED <<subscriptions, inserted, client_tx, conns, protocol, client_cred>>
     /\ UNCHANGED <<mvars, avars, wvars, xvars>>

\* a client of the WS-API: made with or without credentials, connected,
\* subscribed, and called
NextSigned ==
  \/ \E cred \in Creds : ClientNewPrivate(cred)
  \/ ClientConnect
  \/ \E r \in ClientRequests : ClientSubscribe(r.channel, r.args)
  \/ \E params \in CallerParams : WsapiCall("ping", params)
  \/ \E params \in CallerParams, timestamp \in Timestamps :
       WsapiCallSigned("order.place", params, timestamp)

SpecSigned == Init /\ [][NextSigned]_vars

\* C33: wsapi_call_signed on a client without credentials, or whose signing
\* fails, returns AuthenticationError, sends no frame and leaves the sender
\* and the subscription table as they were; a wsapi_call that follows on a
\* connected client succeeds and sends its request.
C33_SigningFailureSendsNothing ==
  /\ [][(client_call'.op = "wsapi_call_signed" /\ client_cred # "good")
          => /\ wsapi_result' = "AuthenticationError"
             /\ client_sent' = <<>>
             /\ client_tx' = client_tx
             /\ subscriptions' = subscriptions]_vars
  /\ [][(wsapi_result = "AuthenticationError" /\ client_call'.op = "wsapi_call"
         /\ client_tx # 0)
          => /\ wsapi_result' = "Ok"
             /\ client_sent' = <<[method |-> client_call'.method,
                                  params |-> client_call'.params]>>]_vars

\* a connected client with a subscription has refused to sign
C33_Witness ==
  /\ client_call.op = "wsapi_call_signed"
  /\ wsapi_result = "AuthenticationError"
  /\ client_tx # 0
  /\ subscriptions # EmptyMap
  /\ client_sent = <<>>

\* the payload as the statement describes it: the pairs of the parameters
\* with apiKey and timestamp, without `signature`, ascending by key
ClaimedPayload(params, timestamp) ==
  LET p == WithAuth(params, timestamp)
      S == DOMAIN p \ {"signature"}
      sorted == CHOOSE f \in Orderings(S) :
                  \A i, j \in DOMAIN f : i < j => KeyRank(f[i]) < KeyRank(f[j])
  IN JoinPairs(sorted, p)

\* C34: the request wsapi_call_signed sends carries the parameters, apiKey,
\* timestamp and the signature of the payload made of every pair but
\* `signature`, ascending by key, joined with `&`; build_signed_request
\* gives the same request for the same parameters.
C34_SignedPayload ==
  (client_call.op = "wsapi_call_signed" /\ wsapi_result = "Ok")
    => LET params == client_call.params
           timestamp == client_call.timestamp
       IN /\ client_sent[1].params
               = MapInsert(WithAuth(params, timestamp), "signature",
                           JsonString(SignEd25519(client_cred,
                                        ClaimedPayload(params, timestamp)).signature))
          /\ client_sent = BuildSignedRequest(client_cred, client_call.method, params,
                                              timestamp)

\* ---------------------------------------------------------------- login
\* C35: Market::handle_login answers a connected client with one reply that
\* carries the request id and the login parameters as result; it makes a
\* subscriber only for a client that has none, so that a repeated login
\* leaves the client's symbol set and id map, and every refcount, as they
\* were.
C35_LoginEchoAndKeepsSubscriber ==
  \A a \in txs, r \in ClientIds, trading \in BOOLEAN :
    LET st == HandleLogin(St, a, LoginMsg(r, trading))
    IN /\ st.sink[a] = <<Msg(r, "login", NoCode, <<>>, NoId)>>
       /\ \A b \in Addrs \ {a} : st.sink[b] = <<>>
       /\ st.subscribers = IF a \in DOMAIN subscribers THEN subscribers
                           ELSE MapInsert(subscribers, a, NewSubscriber)
       /\ st.symbols = symbols
       /\ st.requests = requests
       /\ st.upstream = <<>>

\* a client that holds a stream has logged in again
C35_Witness ==
  \E a \in txs \cap DOMAIN subscribers :
    /\ subscribers[a].symbols # {}
    /\ Len(sink[a]) = 1
    /\ sink[a][1].kind = "login"

\* the replies on the sink of a that carry the request id r
RepliesTo(st, a, r) == {i \in DOMAIN st.sink[a] : st.sink[a][i].id = r}

\* C40: with Market and Trade connected, a login request of a connected
\* client yields exactly one reply carrying its id on the client's sink:
\* for a login without trading, for a trading login Trade accepts, and for a
\* trading login Trade rejects with an error.
C40_OneReplyPerLogin ==
  (~disconnected /\ ~trade_disconnected)
    => \A a \in strategy_client_channels \cap txs, r \in ClientIds, trading \in BOOLEAN :
         \A terr \in TradeMayReject(LoginMsg(r, trading)) :
           Cardinality(RepliesTo(DispatchRequest(St, a, LoginMsg(r, trading), terr), a, r)) = 1

\* the same for the logins Trade does not reject
C40_OneReplyPerAcceptedLogin ==
  (~disconnected /\ ~trade_disconnected)
    => \A a \in strategy_client_channels \cap txs, r \in ClientIds, trading \in BOOLEAN :
         Cardinality(RepliesTo(DispatchRequest(St, a, LoginMsg(r, trading), FALSE), a, r)) = 1

\* ---------------------------------------------------------------- order events
\* client order ids as the exchange sends them: 7, 2^16, 2^32, 2^32 + 7,
\* 2^64 - 1, 2^64, the empty text and a text that is no number
IdTexts ==
  {<<"7">>,
   <<"6", "5", "5", "3", "6">>,
   <<"4", "2", "9", "4", "9", "6", "7", "2", "9", "6">>,
   <<"4", "2", "9", "4", "9", "6", "7", "3", "0", "3">>,
   <<"1", "8", "4", "4", "6", "7", "4", "4", "0", "7", "3", "7", "0", "9", "5", "5", "1", "6", "1", "5">>,
   <<"1", "8", "4", "4", "6", "7", "4", "4", "0", "7", "3", "7", "0", "9", "5", "5", "1", "6", "1", "6">>,
   <<>>,
   <<"1", "2", "x">>}

OrderStates == {"CANCELED", "NEW", "FILLED"}

\* the value of a decimal digit
DecimalDigit ==
  [c \in {"0", "1", "2", "3", "4", "5", "6", "7", "8", "9"} |->
     CASE c = "0" -> 0 [] c = "1" -> 1 [] c = "2" -> 2 [] c = "3" -> 3 [] c = "4" -> 4
       [] c = "5" -> 5 [] c = "6" -> 6 [] c = "7" -> 7 [] c = "8" -> 8 [] OTHER -> 9]

\* a u64 is kept as four limbs of 16 bits, the lowest first; acc * 10 + d
\* with the carry out of the highest limb, which is the overflow of the u64
MulAdd10(acc, d) ==
  LET t1 == acc[1] * 10 + d
      t2 == acc[2] * 10 + t1 \div 65536
      t3 == acc[3] * 10 + t2 \div 65536
      t4 == acc[4] * 10 + t3 \div 65536
  IN [limbs |-> <<t1 % 65536, t2 % 65536, t3 % 65536, t4 % 65536>>,
      carry |-> t4 \div 65536]

\* str::parse::<u64>, digit by digit: an error on an empty text, on a
\* character that is no digit and on a value beyond 2^64 - 1
RECURSIVE ParseDigits(_, _)
ParseDigits(text, acc) ==
  IF text = <<>> THEN [ok |-> TRUE, limbs |-> acc]
  ELSE IF Head(text) \notin DOMAIN DecimalDigit THEN [ok |-> FALSE, limbs |-> acc]
  ELSE LET next == MulAdd10(acc, DecimalDigit[Head(text)])
       IN IF next.carry # 0 THEN [ok |-> FALSE, limbs |-> acc]
          ELSE ParseDigits(Tail(text), next.limbs)

\* .parse::<u64>().unwrap_or_default()
ParseU64OrDefault(text) ==
  LET parsed == ParseDigits(text, <<0, 0, 0, 0>>)
  IN IF text # <<>> /\ parsed.ok THEN parsed.limbs ELSE <<0, 0, 0, 0>>

\* (client_order_id & 0xFFFFFFFF) as u32: the two low limbs
Low32(limbs) == <<limbs[1], limbs[2]>>

\* a projection of ExecutionReport that always reads the live field
FromExecutionReport_live(value) ==
  [internal_id |-> Low32(ParseU64OrDefault(value.c)), state |-> value.X]

\* impl From<ExecutionReport> for Order, the fields internal_id and state
FromExecutionReport(value) ==
  LET client_order_id == ParseU64OrDefault(IF value.X = "CANCELED" THEN value.C
                                           ELSE value.c)
  IN [internal_id |-> Low32(client_order_id), state |-> value.X]

\* serde on the object `o` of an ORDER_TRADE_UPDATE: OrderData has the
\* fields c and X and no field C, and a member the struct does not name is
\* skipped
DeserializeOrderData(wire) == [c |-> wire.c, X |-> wire.X]

\* impl From<OrderUpdate> for SOrder, the fields internal_id and state
FromOrderUpdate(o) ==
  [internal_id |-> Low32(ParseU64OrDefault(o.c)), state |-> o.X]

\* an executionReport of the spot account is projected
ProjectExecutionReport(value) ==
  /\ event' = [type |-> "ExecutionReport", c |-> value.c, C |-> value.C, X |-> value.X]
  /\ order' = FromExecutionReport(value)
  /\ UNCHANGED <<mvars, avars, cvars, wvars, hvars, svars, kvars, rvars>>

\* an ORDER_TRADE_UPDATE of the futures account is projected
ProjectOrderUpdate(wire) ==
  /\ event' = [type |-> "OrderUpdate", c |-> wire.c, C |-> wire.C, X |-> wire.X]
  /\ order' = FromOrderUpdate(DeserializeOrderData(wire))
  /\ UNCHANGED <<mvars, avars, cvars, wvars, hvars, svars, kvars, rvars>>

\* order events of either kind with every client order id and state
NextOrder ==
  \/ \E c \in IdTexts, C \in IdTexts, X \in OrderStates :
       ProjectExecutionReport([c |-> c, C |-> C, X |-> X])
  \/ \E c \in IdTexts, C \in IdTexts, X \in OrderStates :
       ProjectOrderUpdate([c |-> c, C |-> C, X |-> X])

SpecOrder == Init /\ [][NextOrder]_vars

\* parse_u64(text) mod 2^32 as two limbs of 16 bits, 0 for a text that is no
\* decimal u64, for the texts of the model
ClaimedId(text) ==
  CASE text = <<"7">> -> <<7, 0>>
    [] text = <<"6", "5", "5", "3", "6">> -> <<0, 1>>
    [] text = <<"4", "2", "9", "4", "9", "6", "7", "2", "9", "6">> -> <<0, 0>>
    [] text = <<"4", "2", "9", "4", "9", "6", "7", "3", "0", "3">> -> <<7, 0>>
    [] text = <<"1", "8", "4", "4", "6", "7", "4", "4", "0", "7", "3", "7", "0", "9", "5", "5", "1", "6", "1", "5">> -> <<65535, 65535>>
    [] text = <<"1", "8", "4", "4", "6", "7", "4", "4", "0", "7", "3", "7", "0", "9", "5", "5", "1", "6", "1", "6">> -> <<0, 0>>
    [] text = <<>> -> <<0, 0>>
    [] OTHER -> <<0, 0>>

\* C36 as stated: for both kinds of event the internal_id is the low 32 bits
\* of the original client order id when the state is CANCELED and of the
\* live one otherwise, and the state is copied.
C36_InternalIdOfOrderEvents ==
  event.type # "none"
    => /\ order.internal_id = ClaimedId(IF event.X = "CANCELED" THEN event.C ELSE event.c)
       /\ order.state = event.X

\* C36: the internal_id is parse_u64(client_order_id) mod 2^32, 0 when the
\* text is no decimal u64, and the state is copied; for an ExecutionReport
\* the client order id is the original one when the state is CANCELED and
\* the live one otherwise, for an OrderUpdate, which has one client order id
\* field, it is that field whatever the state.
C36_InternalIdByEventKind ==
  event.type # "none"
    => /\ order.internal_id
            = ClaimedId(IF event.type = "ExecutionReport" /\ event.X = "CANCELED"
                        THEN event.C ELSE event.c)
       /\ order.state = event.X

\* a cancelled spot order whose original id is 2^32 + 7 and whose live id is 2^16
C36_Witness ==
  /\ event.type = "ExecutionReport"
  /\ event.X = "CANCELED"
  /\ event.C = <<"4", "2", "9", "4", "9", "6", "7", "3", "0", "3">>
  /\ event.c = <<"6", "5", "5", "3", "6">>
  /\ order = [internal_id |-> <<7, 0>>, state |-> "CANCELED"]

\* ---------------------------------------------------------------- tasks of a client and its clones
\* the number of upstream connections followed
MaxMade == 6

\* a watchdog finds last_ping_time more than 30 s old: Close goes to the
\* sender it captured, which ends that connection, and connect() runs on
\* the clone the watchdog owns. connect() spawns the tasks of a new
\* connection and stores their handle over the one the clone held, which
\* detaches the tasks of the clone's previous connection without ending
\* them; then start_reconnect_task spawns a watchdog unless the clone has
\* one in its reconnect_task, and a clone is made with reconnect_task None
WatchdogReconnect(i) ==
  /\ made < MaxMade
  /\ made' = made + 1
  /\ open_conns' = (open_conns \ {watchdogs[i].tx}) \cup {made + 1}
  /\ watchdogs' = IF watchdogs[i].has_task
                  THEN watchdogs
                  ELSE Append([watchdogs EXCEPT ![i].has_task = TRUE],
                              [tx |-> made + 1, has_task |-> FALSE])
  /\ UNCHANGED <<mvars, avars, cvars, wvars, hvars, svars, kvars, ovars>>

\* the heartbeat loop of a connection ends: the server closed it, a receive
\* failed, or a ping stayed unanswered
ConnectionEnds(c) ==
  /\ c \in open_conns
  /\ open_conns' = open_conns \ {c}
  /\ UNCHANGED <<watchdogs, made>>
  /\ UNCHANGED <<mvars, avars, cvars, wvars, hvars, svars, kvars, ovars>>

\* the watchdogs of one client reconnect while connections end
NextTasks ==
  \/ \E i \in DOMAIN watchdogs : WatchdogReconnect(i)
  \/ \E c \in 1..MaxMade : ConnectionEnds(c)

SpecTasks == Init /\ [][NextTasks]_vars

\* C37: a client handle and its clones have at most one watchdog running
\* and at most one upstream connection open.
C37_OneWatchdogOneConnection ==
  /\ Len(watchdogs) <= 1
  /\ Cardinality(open_conns) <= 1

\* the part of C37 about connections alone
C37_OneConnection == Cardinality(open_conns) <= 1

\* the calls of trade.handle_close for the client a among the Trade calls of a step
CloseCalls(calls, a) ==
  {i \in DOMAIN calls : calls[i] = [op |-> "handle_close", addr |-> a]}

\* C38: in a drain pass the close hooks run at most once for a client,
\* however its disconnect shows: as a Close frame, as a closed channel, or
\* as both; trade.handle_close is not called twice for the same client.
C38_CloseHooksOnce ==
  [][DrainPass => \A a \in Addrs : Cardinality(CloseCalls(trade_calls', a)) <= 1]_vars

\* C39: when the server has answered the outstanding ping of the heartbeat
\* loop before the next tick, with a Pong to the Ping of the Binance
\* protocols and with the text `pong` to the text `ping` of OKX, the tick
\* does not end the loop.
C39_AnsweredPingKeepsConnection ==
  [][(hb_event' = "timer" /\ ping_answered /\ tx_in_open) => hb_running']_vars

\* the same for the Binance protocols alone
C39_AnsweredPingKeepsConnectionBinance ==
  [][(protocol = "binance" /\ hb_event' = "timer" /\ ping_answered /\ tx_in_open)
       => hb_running']_vars

====
